---- MODULE Spec2Model ----
(***************************************************************************)
(* Network Defender: the Level-3 phase controller (LevelManagerStackelberg *)
(* driven by PlayingState) and the agent re-routing logic (Enemy /         *)
(* Tower.updateHoneypot over Pathfinding.findPath).                        *)
(*                                                                         *)
(* Times are in milliseconds, lengths in pixels.  Node positions are       *)
(* chosen so that every pairwise Euclidean distance is an integer, which   *)
(* makes Math.hypot exact in integer arithmetic.  A* scores are kept       *)
(* multiplied by JitterScale so that the jitter factor stays an integer.   *)
(***************************************************************************)
EXTENDS Integers, Sequences, FiniteSets, TLC

VARIABLES
    edges,          \* Enemy.edges: the edge list the agent path-finds on
    hasEdges,       \* FALSE when the Enemy was constructed with edges = null
    honeypots,      \* PlayingState.towers restricted to Honeypots: their nearestNodeId, in array order
    enemy,          \* one Enemy object
    inPlay,         \* the Enemy is still in PlayingState.enemies
    rpc,            \* position inside one frame: index of the next tower to update, Len+1 = enemy update
    lastCall,       \* the last rerouteToNode call: node, return point, agent before the call
    levelManager,             \* PlayingState.levelManager: the current LevelManagerStackelberg
    ps,             \* PlayingState fields: towers, enemies (count), selectedTowerType, paused, towersLocked
    timers,         \* scheduled setTimeout callbacks: owning controller and time left
    ended,          \* controllers of ended sessions (still referenced by their callbacks)
    emitted,        \* 'aiAnalysisComplete' events: emitting controller, session it was emitted in
    pf,             \* one Pathfinding.findPath call: its arguments and, once it returned, its result
    tc,             \* a level manager's graph fields and the outcome of its last topology load
    rl,             \* one EconomicRL learner object
    store,          \* localStorage item 'networkdefender_qtable'
    gen,            \* the last object a TopologyGenerator call returned
    ck,             \* one TopologyGenerator.identifyChokepoints call: its arguments and the runs made with them
    ai,             \* one PerfectAI: the committed towers, the paths it analyses and its last strategy
    ws,             \* one endless session: the level manager's wave counters and installed topology, the GeniusAI counters and the placed towers
    play,           \* the NORMAL-mode session: its LevelManager, agents in play, towers, pause flag
    agents,         \* an endless session's PlayingState: the topology each agent in play was built on, packetsInWave, the pause flag, core health
    bus             \* the global EventBus: its listeners per event, and the PlayingState that registers them

rtvars == <<edges, hasEdges, honeypots, enemy, inPlay, rpc, lastCall>>

phvars == <<levelManager, ps, timers, ended, emitted>>

extvars == <<pf, tc, rl, store, gen, ck, ai, ws, play, agents, bus>>

vars == <<rtvars, phvars, extvars>>

\* the components outside the one a specification follows are not in use
ExtIdle ==
    /\ pf = <<>>
    /\ tc = <<>>
    /\ rl = <<>>
    /\ store = <<>>
    /\ gen = <<>>
    /\ ck = <<>>
    /\ ai = <<>>
    /\ ws = <<>>
    /\ play = <<>>
    /\ agents = <<>>
    /\ bus = <<>>

\* JavaScript null in a node-valued field (attractedToNode, a missing cameFrom entry)
NoNode == 0 - 1

----------------------------------------------------------------------------
(* Graph data *)

NodeX == (0 :> 0) @@ (1 :> 300) @@ (2 :> 150) @@ (3 :> 0) @@ (4 :> 300)
NodeY == (0 :> 0) @@ (1 :> 0) @@ (2 :> 200) @@ (3 :> 400) @@ (4 :> 400)

Nodes == DOMAIN NodeX

Sq(v) == v * v

ISqrt(n) == CHOOSE r \in 0..1000 : r * r <= n /\ n < (r + 1) * (r + 1)

\* Graphics.distance on node positions
DistTable == [a \in Nodes, b \in Nodes |-> ISqrt(Sq(NodeX[b] - NodeX[a]) + Sq(NodeY[b] - NodeY[a]))]

distance(a, b) == DistTable[a, b]

\* topologies: edge list, the source and goal used for the spawn path, nodes a tower may sit on
Topologies ==
    << [edges |-> << <<0,1>>, <<1,4>>, <<0,3>>, <<3,4>>, <<0,2>>, <<2,4>> >>,
        source |-> 0, goal |-> 4, chokepoints |-> <<1, 2, 3>>],
       [edges |-> << <<0,1>>, <<1,4>>, <<2,3>> >>,
        source |-> 0, goal |-> 4, chokepoints |-> <<1, 2>>],
       [edges |-> << <<0,2>>, <<2,1>>, <<2,3>>, <<2,4>> >>,
        source |-> 0, goal |-> 4, chokepoints |-> <<1, 2, 3>>],
       [edges |-> << <<0,1>>, <<0,2>>, <<0,3>>, <<1,2>>, <<1,4>>, <<2,3>>, <<2,4>>, <<3,4>>, <<0,4>> >>,
        source |-> 0, goal |-> 4, chokepoints |-> <<1, 2>>],
       [edges |-> << <<0,1>>, <<1,4>>, <<4,3>>, <<3,0>> >>,
        source |-> 3, goal |-> 1, chokepoints |-> <<0, 4>>],
       [edges |-> << <<0,2>>, <<2,2>>, <<2,4>>, <<0,2>>, <<2,1>>, <<1,4>> >>,
        source |-> 0, goal |-> 4, chokepoints |-> <<1, 2, 4>>] >>

----------------------------------------------------------------------------
(* Pathfinding *)

Infinity == 1000000000

JitterScale == 100

NoJitter == [p \in Nodes \X Nodes |-> JitterScale]

\* the edges incident to node v cost 19% more, every other edge 20% less
JitterAround(v) == [p \in Nodes \X Nodes |-> IF p[1] = v \/ p[2] = v THEN 119 ELSE 80]

RECURSIVE buildGraphFrom(_, _, _)
buildGraphFrom(es, i, graph) ==
    IF i > Len(es) THEN graph
    ELSE LET from == es[i][1]
             to == es[i][2]
             g1 == [graph EXCEPT ![from] = Append(@, to)]
             g2 == [g1 EXCEPT ![to] = Append(@, from)]
         IN buildGraphFrom(es, i + 1, g2)

buildGraph(es) == buildGraphFrom(es, 1, [n \in Nodes |-> <<>>])

heuristic(a, b) == distance(a, b) * JitterScale

RECURSIVE reconstructPath_DropsStart(_, _)
reconstructPath_DropsStart(cameFrom, current) ==
    IF cameFrom[current] = NoNode THEN <<>>
    ELSE reconstructPath_DropsStart(cameFrom, cameFrom[current]) \o <<current>>

RECURSIVE reconstructPath(_, _)
reconstructPath(cameFrom, current) ==
    IF cameFrom[current] = NoNode THEN <<current>>
    ELSE reconstructPath(cameFrom, cameFrom[current]) \o <<current>>

SeqRemove(s, v) == SelectSeq(s, LAMBDA w : w # v)

SeqHas(s, v) == \E i \in 1..Len(s) : s[i] = v

\* the first node of the open set, in insertion order, whose fScore is lowest
LowestF(open, fScore) ==
    LET best == CHOOSE i \in 1..Len(open) :
                    /\ \A j \in 1..Len(open) : fScore[open[i]] <= fScore[open[j]]
                    /\ \A j \in 1..(i - 1) : fScore[open[j]] > fScore[open[i]]
    IN open[best]

RECURSIVE relaxNeighbors(_, _, _, _, _, _)
relaxNeighbors(st, current, nbrs, i, goal, jit) ==
    IF i > Len(nbrs) THEN st
    ELSE LET neighbor == nbrs[i]
             cost == distance(current, neighbor) * jit[<<current, neighbor>>]
             tentativeGScore == st.gScore[current] + cost
             st2 == IF tentativeGScore < st.gScore[neighbor]
                    THEN [openSet |-> IF SeqHas(st.openSet, neighbor) THEN st.openSet
                                      ELSE Append(st.openSet, neighbor),
                          cameFrom |-> [st.cameFrom EXCEPT ![neighbor] = current],
                          gScore |-> [st.gScore EXCEPT ![neighbor] = tentativeGScore],
                          fScore |-> [st.fScore EXCEPT ![neighbor] =
                                         tentativeGScore + heuristic(neighbor, goal)]]
                    ELSE st
         IN relaxNeighbors(st2, current, nbrs, i + 1, goal, jit)

RECURSIVE aStarLoop_GoalOnFailure(_, _, _, _)
aStarLoop_GoalOnFailure(st, graph, goal, jit) ==
    IF Len(st.openSet) = 0 THEN <<goal>>
    ELSE LET current == LowestF(st.openSet, st.fScore)
         IN IF current = goal THEN reconstructPath(st.cameFrom, current)
            ELSE aStarLoop_GoalOnFailure(
                     relaxNeighbors([st EXCEPT !.openSet = SeqRemove(@, current)],
                                    current, graph[current], 1, goal, jit),
                     graph, goal, jit)

RECURSIVE aStarLoop(_, _, _, _)
aStarLoop(st, graph, goal, jit) ==
    IF Len(st.openSet) = 0 THEN <<>>
    ELSE LET current == LowestF(st.openSet, st.fScore)
         IN IF current = goal THEN reconstructPath(st.cameFrom, current)
            ELSE aStarLoop(relaxNeighbors([st EXCEPT !.openSet = SeqRemove(@, current)],
                                          current, graph[current], 1, goal, jit),
                           graph, goal, jit)

findPath_TrivialEmpty(es, start, goal, jit) ==
    IF start = goal THEN <<>>
    ELSE aStarLoop([openSet |-> <<start>>,
                    cameFrom |-> [n \in Nodes |-> NoNode],
                    gScore |-> [n \in Nodes |-> IF n = start THEN 0 ELSE Infinity],
                    fScore |-> [n \in Nodes |-> IF n = start THEN heuristic(start, goal)
                                                ELSE Infinity]],
                   buildGraph(es), goal, jit)

findPath(es, start, goal, jit) ==
    IF start = goal THEN <<start>>
    ELSE aStarLoop([openSet |-> <<start>>,
                    cameFrom |-> [n \in Nodes |-> NoNode],
                    gScore |-> [n \in Nodes |-> IF n = start THEN 0 ELSE Infinity],
                    fScore |-> [n \in Nodes |-> IF n = start THEN heuristic(start, goal)
                                                ELSE Infinity]],
                   buildGraph(es), goal, jit)

----------------------------------------------------------------------------
(* Enemy *)

\* one frame at the engine's cap
DeltaTime == 100

\* Config.TOWERS.Honeypot
HoneypotRange == 250
DistractDuration == 3000

\* Config.ENEMIES.FAST: speed 4.0, so speed * (deltaTime / 16) = 25 pixels a frame
EffectiveSpeed == 25

\* health in tenths: FAST has health 12; a Honeypot takes damage * deltaTime / 1000 = one tenth a frame
FullHealth == 120
HoneypotDamage == 1

PathLen(e) == Len(e.path)

\* path[k] with JavaScript's 0-based index
At(path, k) == path[k + 1]

isAlive(e) == e.alive /\ ~e.reachedGoal

HasNext(e) == e.currentPathIndex < PathLen(e) - 1

\* distance from (x, y) to (targetX, targetY): the agent is `off` pixels along the edge
\* path[currentPathIndex] -> path[currentPathIndex + 1], or on the last node of its path
DistanceToTarget(e) ==
    IF HasNext(e)
    THEN distance(At(e.path, e.currentPathIndex), At(e.path, e.currentPathIndex + 1)) - e.off
    ELSE 0

NewEnemy(path, health, legit) ==
    [path |-> path, currentPathIndex |-> 0, off |-> 0,
     attractedToNode |-> NoNode, originalPath |-> <<>>, processedHoneypots |-> {},
     attractionTimer |-> 0, health |-> health, alive |-> TRUE, reachedGoal |-> FALSE,
     legitimate |-> legit]

\* an update that passes through the honeypot node without noting it
Enemy_update_KeepsAttractor(e) ==
    IF ~e.alive \/ e.reachedGoal THEN e
    ELSE LET e1 == IF e.attractionTimer > 0
                   THEN [e EXCEPT !.attractionTimer = @ - DeltaTime]
                   ELSE e
         IN IF DistanceToTarget(e1) < EffectiveSpeed
            THEN LET idx == e1.currentPathIndex + 1
                 IN IF idx >= PathLen(e1)
                    THEN [e1 EXCEPT !.currentPathIndex = idx, !.reachedGoal = TRUE]
                    ELSE [e1 EXCEPT !.currentPathIndex = idx, !.off = 0]
            ELSE [e1 EXCEPT !.off = @ + EffectiveSpeed]

\* an update that takes the first node reached for the honeypot node
Enemy_update_ClearsAtAnyNode(e) ==
    IF ~e.alive \/ e.reachedGoal THEN e
    ELSE LET e1 == IF e.attractionTimer > 0
                   THEN [e EXCEPT !.attractionTimer = @ - DeltaTime]
                   ELSE e
         IN IF DistanceToTarget(e1) < EffectiveSpeed
            THEN LET idx == e1.currentPathIndex + 1
                 IN IF idx >= PathLen(e1)
                    THEN [e1 EXCEPT !.currentPathIndex = idx, !.reachedGoal = TRUE]
                    ELSE LET nextNodeIndex == At(e1.path, idx)
                             e2 == [e1 EXCEPT !.currentPathIndex = idx, !.off = 0]
                         IN IF e2.attractedToNode # NoNode
                            THEN [e2 EXCEPT !.processedHoneypots = @ \cup {e2.attractedToNode},
                                            !.attractedToNode = NoNode]
                            ELSE e2
            ELSE [e1 EXCEPT !.off = @ + EffectiveSpeed]

Enemy_update(e) ==
    IF ~e.alive \/ e.reachedGoal THEN e
    ELSE LET e1 == IF e.attractionTimer > 0
                   THEN [e EXCEPT !.attractionTimer = @ - DeltaTime]
                   ELSE e
         IN IF DistanceToTarget(e1) < EffectiveSpeed
            THEN LET idx == e1.currentPathIndex + 1
                 IN IF idx >= PathLen(e1)
                    THEN [e1 EXCEPT !.currentPathIndex = idx, !.reachedGoal = TRUE]
                    ELSE LET nextNodeIndex == At(e1.path, idx)
                             e2 == [e1 EXCEPT !.currentPathIndex = idx, !.off = 0]
                         IN IF nextNodeIndex = e2.attractedToNode
                            THEN [e2 EXCEPT !.processedHoneypots = @ \cup {e2.attractedToNode},
                                            !.attractedToNode = NoNode]
                            ELSE e2
            ELSE [e1 EXCEPT !.off = @ + EffectiveSpeed]

takeDamage(e, amount) ==
    IF e.legitimate THEN e
    ELSE [e EXCEPT !.health = @ - amount, !.alive = IF e.health - amount <= 0 THEN FALSE ELSE @]

Max(a, b) == IF a >= b THEN a ELSE b

applyAttraction(e, duration) == [e EXCEPT !.attractionTimer = Max(@, duration)]

\* Pathfinding.findPath as rerouteToNode calls it (randomize = false); with edges = null
\* buildGraph throws unless start === goal returned first
FindThrows(es, has, start, goal) == ~has /\ start # goal

\* Pathfinding.findPath(nodes, edges, a, b, false) on the graph of each topology, computed
\* once for every pair of nodes
RoutePaths ==
    [t \in 1..Len(Topologies), a \in Nodes, b \in Nodes |->
        findPath(Topologies[t].edges, a, b, NoJitter)]

\* findPath without jitter on the edge list es of a topology
routePath(es, a, b) ==
    RoutePaths[CHOOSE t \in 1..Len(Topologies) : Topologies[t].edges = es, a, b]

\* the three findPath calls of rerouteToNode and the choice between reversing and continuing
SpliceParts(e, es, nodeId, prevNodeId, nextNodeId, goalNodeId) ==
    LET pathFromPrev == routePath(es, prevNodeId, nodeId)
        pathFromNext == routePath(es, nextNodeId, nodeId)
        pathHpToGoal == routePath(es, nodeId, goalNodeId)
        distToPrev == e.off
        distToNext == distance(prevNodeId, nextNodeId) - e.off
        costPrev == distToPrev + Len(pathFromPrev) * 100
        costNext == distToNext + Len(pathFromNext) * 100
        useNext == IF Len(pathFromPrev) > 0
                   THEN IF prevNodeId = nodeId THEN FALSE
                        ELSE IF Len(pathFromNext) = 0 THEN FALSE
                        ELSE ~(costPrev * 10 < costNext * 11)
                   ELSE TRUE
    IN [pathFromPrev |-> pathFromPrev, pathFromNext |-> pathFromNext,
        pathHpToGoal |-> pathHpToGoal, useNext |-> useNext,
        pathToHp |-> IF useNext THEN <<prevNodeId>> \o pathFromNext
                     ELSE <<nextNodeId>> \o pathFromPrev]

DropFirst(s) == SubSeq(s, 2, Len(s))

\* a splice that installs the path before it has checked that the route exists
Splice_AppliedBeforeChecks(e, es, nodeId, prevNodeId, nextNodeId, goalNodeId) ==
    LET p == SpliceParts(e, es, nodeId, prevNodeId, nextNodeId, goalNodeId)
        applied == [e EXCEPT !.path = p.pathToHp \o DropFirst(p.pathHpToGoal),
                             !.currentPathIndex = 0, !.off = 0]
    IN IF Len(p.pathHpToGoal) = 0 THEN [e |-> applied, out |-> "noGoalPath"]
       ELSE IF Len(p.pathFromPrev) = 0 /\ Len(p.pathFromNext) = 0
            THEN [e |-> applied, out |-> "deadEnd"]
       ELSE [e |-> applied, out |-> IF p.useNext THEN "splicedNext" ELSE "splicedPrev"]

\* a splice that keeps the honeypot node twice
Splice_KeepsDuplicate(e, es, nodeId, prevNodeId, nextNodeId, goalNodeId) ==
    LET p == SpliceParts(e, es, nodeId, prevNodeId, nextNodeId, goalNodeId)
    IN IF Len(p.pathHpToGoal) = 0 THEN [e |-> e, out |-> "noGoalPath"]
       ELSE IF Len(p.pathFromPrev) = 0 /\ Len(p.pathFromNext) = 0
            THEN [e |-> e, out |-> "deadEnd"]
       ELSE [e |-> [e EXCEPT !.path = p.pathToHp \o p.pathHpToGoal,
                             !.currentPathIndex = 0, !.off = 0],
             out |-> IF p.useNext THEN "splicedNext" ELSE "splicedPrev"]

Splice(e, es, nodeId, prevNodeId, nextNodeId, goalNodeId) ==
    LET p == SpliceParts(e, es, nodeId, prevNodeId, nextNodeId, goalNodeId)
    IN IF Len(p.pathHpToGoal) = 0 THEN [e |-> e, out |-> "noGoalPath"]
       ELSE IF Len(p.pathFromPrev) = 0 /\ Len(p.pathFromNext) = 0
            THEN [e |-> e, out |-> "deadEnd"]
       ELSE [e |-> [e EXCEPT !.path = p.pathToHp \o DropFirst(p.pathHpToGoal),
                             !.currentPathIndex = 0, !.off = 0],
             out |-> IF p.useNext THEN "splicedNext" ELSE "splicedPrev"]

\* rerouteToNode past its two IGNORE guards
RerouteAccepted(e, es, has, nodeId) ==
    LET isLeavingHoneypot == e.currentPathIndex < PathLen(e)
                             /\ At(e.path, e.currentPathIndex) = nodeId
    IN IF e.attractedToNode = nodeId /\ ~isLeavingHoneypot
       THEN [e |-> e, out |-> "already"]
       ELSE IF PathLen(e) = 0 \/ e.currentPathIndex >= PathLen(e) - 1
            THEN [e |-> e, out |-> "noNextNode"]
       ELSE LET e1 == [e EXCEPT !.originalPath = IF @ = <<>> THEN e.path ELSE @,
                                !.attractedToNode = nodeId]
                prevNodeId == At(e.path, e.currentPathIndex)
                nextNodeId == At(e.path, e.currentPathIndex + 1)
                goalNodeId == At(e.path, PathLen(e) - 1)
            IN IF \/ FindThrows(es, has, prevNodeId, nodeId)
                  \/ FindThrows(es, has, nextNodeId, nodeId)
                  \/ FindThrows(es, has, nodeId, goalNodeId)
               THEN [e |-> e1, out |-> "caught"]
               ELSE Splice(e1, es, nodeId, prevNodeId, nextNodeId, goalNodeId)

\* a rerouteToNode that forgets the processedHoneypots guard
rerouteToNode_NoVisitedGuard(e, es, has, nodeId) ==
    IF e.attractedToNode # NoNode /\ e.attractedToNode # nodeId
    THEN [e |-> e, out |-> "hijack"]
    ELSE RerouteAccepted(e, es, has, nodeId)

\* a rerouteToNode that lets a second honeypot take over an agent
rerouteToNode_NoHijackGuard(e, es, has, nodeId) ==
    IF nodeId \in e.processedHoneypots THEN [e |-> e, out |-> "visited"]
    ELSE RerouteAccepted(e, es, has, nodeId)

rerouteToNode(e, es, has, nodeId) ==
    IF nodeId \in e.processedHoneypots THEN [e |-> e, out |-> "visited"]
    ELSE IF e.attractedToNode # NoNode /\ e.attractedToNode # nodeId
         THEN [e |-> e, out |-> "hijack"]
    ELSE RerouteAccepted(e, es, has, nodeId)

\* Graphics.distance(tower.x, tower.y, enemy.x, enemy.y) <= tower.range, the tower on node h.
\* The agent is at a + (off / len) * (b - a); both sides are multiplied by len and, every
\* coordinate and offset being a multiple of EffectiveSpeed, divided by EffectiveSpeed twice.
Scaled(v) == v \div EffectiveSpeed

InRange(e, h) ==
    IF HasNext(e)
    THEN LET a == At(e.path, e.currentPathIndex)
             b == At(e.path, e.currentPathIndex + 1)
             len == Scaled(distance(a, b))
             dx == len * Scaled(NodeX[a] - NodeX[h]) + Scaled(e.off) * Scaled(NodeX[b] - NodeX[a])
             dy == len * Scaled(NodeY[a] - NodeY[h]) + Scaled(e.off) * Scaled(NodeY[b] - NodeY[a])
         IN IF len = 0 THEN distance(a, h) <= HoneypotRange
            ELSE Sq(dx) + Sq(dy) <= Sq(Scaled(HoneypotRange)) * Sq(len)
    ELSE distance(At(e.path, PathLen(e) - 1), h) <= HoneypotRange

\* a Honeypot that pulls an agent it has already held and does it no harm
updateHoneypot_PullsAgain(e, es, has, h) ==
    IF ~isAlive(e) \/ e.legitimate \/ ~InRange(e, h) THEN e
    ELSE applyAttraction(rerouteToNode_NoVisitedGuard(e, es, has, h).e, DistractDuration)

\* Tower.updateHoneypot for one enemy
updateHoneypot(e, es, has, h) ==
    IF ~isAlive(e) \/ e.legitimate \/ ~InRange(e, h) THEN e
    ELSE takeDamage(applyAttraction(rerouteToNode(e, es, has, h).e, DistractDuration),
                    HoneypotDamage)

----------------------------------------------------------------------------
(* LevelManagerStackelberg under PlayingState: one Level-3 session after    *)
(* another.  The operators below work on a record w = [lm, ps, timers]:     *)
(* lm is the current controller object, ps the PlayingState fields and      *)
(* timers the setTimeout callbacks that have been scheduled and not run.    *)

\* Config.LEVELS[3].phases.training and the delay of the analysis setTimeout
TrainingSeconds == 5
AnalysisDelay == 3000

\* LevelManager.spawnInterval default, damage of one leaked agent, reward of a FAST agent
SpawnInterval == 3000
LeakDamage == 10
Reward == 20

\* Config.TOWERS[type].cost
FirewallCost == 300
HoneypotCost == 140

TowerCost(type) == IF type = "Firewall" THEN FirewallCost ELSE HoneypotCost

TowerTypes == {"Firewall", "Honeypot"}

\* PlayingState.selectedTowerType = null
NoType == "none"

\* Level-3 configuration scaled down: the shipped values are commitment 30, battle 30,
\* startingMoney 1200 and coreHealth 100
CommitmentSeconds == 1
BattleSeconds == 4
StartingMoney == 300
StartingHealth == 20

\* chokepoints of the session's topology, and the nodes a canvas click can land on
Chokepoints == {1}
ClickNodes == {0, 1}

\* LevelManagerStackelberg.aiAnalysis = null
NoAnalysis == [done |-> FALSE, towers |-> <<>>]

\* PerfectAI.analyzeAndGenerate(committedTowers): the result keeps the tower list it read
analyzeAndGenerate(committedTowers) == [done |-> TRUE, towers |-> committedTowers]

\* new LevelManagerStackelberg(levelConfig, difficulty); id is the object's identity
NewController(id) ==
    [id |-> id,
     money |-> StartingMoney, coreHealth |-> StartingHealth, score |-> 0,
     packetsSpawned |-> 0, packetsBlocked |-> 0, packetsLeaked |-> 0,
     spawnTimer |-> 0, levelFailed |-> FALSE,
     currentPhase |-> "commitment", phaseTimer |-> 0, aiAnalysis |-> NoAnalysis,
     towersLocked |-> FALSE, committedTowers |-> <<>>, battleActive |-> FALSE]

\* the PlayingState fields enter() resets
NewPlaying ==
    [towers |-> <<>>, enemies |-> 0, selectedTowerType |-> NoType,
     paused |-> FALSE, towersLocked |-> FALSE]

handlePhaseChange_Unlocks(w, canPlaceTowers) == [w EXCEPT !.ps.towersLocked = canPlaceTowers]

\* PlayingState.handlePhaseChange
handlePhaseChange(w, canPlaceTowers) == [w EXCEPT !.ps.towersLocked = ~canPlaceTowers]

\* PlayingState.handleStackelbergComplete
handleStackelbergComplete(w) == [w EXCEPT !.ps.paused = TRUE]

\* startCommitmentPhase; listening: PlayingState's phaseChange listener is registered
startCommitmentPhase(w, listening) ==
    LET w1 == [w EXCEPT !.lm.currentPhase = "commitment", !.lm.phaseTimer = 0,
                        !.lm.towersLocked = FALSE, !.lm.battleActive = FALSE]
    IN IF listening THEN handlePhaseChange(w1, TRUE) ELSE w1

startTrainingPhase(w) ==
    LET w1 == [w EXCEPT !.lm.currentPhase = "training", !.lm.phaseTimer = 0,
                        !.lm.towersLocked = TRUE,
                        !.lm.committedTowers = w.lm.committedTowers,
                        !.timers = @ \cup {[owner |-> w.lm.id, left |-> AnalysisDelay]}]
    IN handlePhaseChange(w1, FALSE)

startBattlePhase(w) ==
    LET w1 == [w EXCEPT !.lm.currentPhase = "battle", !.lm.phaseTimer = 0]
        w2 == handlePhaseChange(w1, FALSE)
    IN [w2 EXCEPT !.lm.battleActive = TRUE]

startScoringPhase(w) ==
    LET w1 == [w EXCEPT !.lm.currentPhase = "scoring", !.lm.battleActive = FALSE]
    IN handleStackelbergComplete(handlePhaseChange(w1, FALSE))

getPhaseDuration(lm) ==
    CASE lm.currentPhase = "commitment" -> CommitmentSeconds
      [] lm.currentPhase = "training" -> TrainingSeconds
      [] lm.currentPhase = "battle" -> BattleSeconds
      [] OTHER -> 0

advancePhase_Cycles(w) ==
    CASE w.lm.currentPhase = "commitment" -> startTrainingPhase(w)
      [] w.lm.currentPhase = "training" -> startBattlePhase(w)
      [] w.lm.currentPhase = "battle" -> startScoringPhase(w)
      [] OTHER -> startCommitmentPhase(w, TRUE)

advancePhase(w) ==
    CASE w.lm.currentPhase = "commitment" -> startTrainingPhase(w)
      [] w.lm.currentPhase = "training" -> startBattlePhase(w)
      [] w.lm.currentPhase = "battle" -> startScoringPhase(w)
      [] OTHER -> w

updatePhase(w, deltaTime) ==
    LET w1 == [w EXCEPT !.lm.phaseTimer = @ + deltaTime]
        elapsed == w1.lm.phaseTimer \div 1000
        remaining == getPhaseDuration(w1.lm) - elapsed
    IN IF remaining <= 0 THEN advancePhase(w1) ELSE w1

\* LevelManager.shouldSpawnEnemy: [lm, spawn]; the mode is PERFECT_AI, never NORMAL
LevelManager_shouldSpawnEnemy(lm, deltaTime) ==
    LET t == lm.spawnTimer + deltaTime
    IN IF t >= SpawnInterval
       THEN [lm |-> [lm EXCEPT !.spawnTimer = 0], spawn |-> TRUE]
       ELSE [lm |-> [lm EXCEPT !.spawnTimer = t], spawn |-> FALSE]

shouldSpawnEnemy_Ungated(lm, deltaTime) == LevelManager_shouldSpawnEnemy(lm, deltaTime)

\* LevelManagerStackelberg.shouldSpawnEnemy
shouldSpawnEnemy(lm, deltaTime) ==
    IF lm.currentPhase # "battle" \/ ~lm.battleActive
    THEN [lm |-> lm, spawn |-> FALSE]
    ELSE LevelManager_shouldSpawnEnemy(lm, deltaTime)

\* PlayingState.spawnEnemy; getRandomPath finds a path (calculatePaths found one)
spawnEnemy(w) == [w EXCEPT !.ps.enemies = @ + 1, !.lm.packetsSpawned = @ + 1]

\* LevelManager.takeDamage
LevelManager_takeDamage(lm, amount) ==
    IF lm.coreHealth - amount <= 0
    THEN [lm EXCEPT !.coreHealth = 0, !.levelFailed = TRUE]
    ELSE [lm EXCEPT !.coreHealth = @ - amount]

\* LevelManager.enemyReachedGoal for an agent that is not legitimate traffic
enemyReachedGoal(lm) == LevelManager_takeDamage([lm EXCEPT !.packetsLeaked = @ + 1], LeakDamage)

\* LevelManager.enemyDestroyed
enemyDestroyed(lm) ==
    [lm EXCEPT !.packetsBlocked = @ + 1, !.score = @ + Reward, !.money = @ + Reward]

RECURSIVE afterLeaks(_, _)
\* enemyReachedGoal for each of n agents that reached the goal in this frame
afterLeaks(lm, n) == IF n = 0 THEN lm ELSE afterLeaks(enemyReachedGoal(lm), n - 1)

RECURSIVE afterKills(_, _)
\* enemyDestroyed for each of n agents that died in this frame
afterKills(lm, n) == IF n = 0 THEN lm ELSE afterKills(enemyDestroyed(lm), n - 1)

\* PlayingState.update up to the enemy loop: updatePhase, then the spawn decision
updateToSpawn(w, deltaTime) ==
    LET w1 == updatePhase(w, deltaTime)
        s == shouldSpawnEnemy(w1.lm, deltaTime)
        w2 == [w1 EXCEPT !.lm = s.lm]
    IN IF s.spawn THEN spawnEnemy(w2) ELSE w2

\* PlayingState.update from the enemy loop on: leaked agents reached the goal and killed
\* agents died in this frame; then handleLevelFailed, which for this controller class is
\* handleStackelbergComplete
updateFromEnemies(w, leaked, killed) ==
    LET w1 == [w EXCEPT !.lm = afterKills(afterLeaks(w.lm, leaked), killed),
                        !.ps.enemies = @ - leaked - killed]
    IN IF w1.lm.levelFailed THEN handleStackelbergComplete(w1) ELSE w1

Occupied(towers, nodeIndex) == \E i \in 1..Len(towers) : towers[i].node = nodeIndex

\* PlayingState.canPlaceTower
canPlaceTower(w, nodeIndex) ==
    /\ ~w.ps.towersLocked
    /\ nodeIndex \in Chokepoints
    /\ ~Occupied(w.ps.towers, nodeIndex)
    /\ w.lm.money >= TowerCost(w.ps.selectedTowerType)

\* PlayingState.placeTower
placeTower(w, nodeIndex) ==
    IF ~canPlaceTower(w, nodeIndex) THEN w
    ELSE LET towers == Append(w.ps.towers, [node |-> nodeIndex, type |-> w.ps.selectedTowerType])
         IN [w EXCEPT !.ps.towers = towers,
                      !.lm.money = @ - TowerCost(w.ps.selectedTowerType),
                      !.lm.committedTowers = towers]

\* PlayingState.handleCanvasClick on a node outside the tower menu
handleCanvasClick(w, nodeIndex) ==
    IF w.ps.towersLocked THEN w
    ELSE IF w.ps.selectedTowerType # NoType THEN placeTower(w, nodeIndex) ELSE w

\* PlayingState.enter for a Level-3 session: the controller is constructed and
\* startCommitmentPhase runs before this session's listeners are registered, so its
\* phaseChange reaches only listeners left over from earlier sessions; then the fields are reset
enter(id, oldTimers) ==
    LET w0 == [lm |-> NewController(id), ps |-> NewPlaying, timers |-> oldTimers]
        w1 == startCommitmentPhase(w0, id > 1)
    IN [w1 EXCEPT !.ps = NewPlaying]

\* a Level-3 session that has just been entered: the phase variables stay at rest during
\* the routing model
PhaseIdle ==
    /\ levelManager = enter(1, {}).lm
    /\ ps = NewPlaying
    /\ timers = {}
    /\ ended = <<>>
    /\ emitted = {}

----------------------------------------------------------------------------
(* One agent under the Honeypot towers of a topology: the tower and enemy   *)
(* loops of PlayingState.update                                             *)

MaxHoneypots == 2

LowHealth == 3

InitHealths == {1, LowHealth, FullHealth}

JitChoices == {NoJitter} \cup {JitterAround(v) : v \in Nodes}

\* the Honeypot towers a player can have placed: distinct chokepoints, in placement order
HoneypotSeqs(cps) ==
    {hs \in UNION {[1..n -> {cps[i] : i \in 1..Len(cps)}] : n \in 0..MaxHoneypots} :
        \A i, j \in 1..Len(hs) : i # j => hs[i] # hs[j]}

NoCall == [node |-> NoNode, out |-> "none", before |-> NewEnemy(<<>>, 0, FALSE)]

InitRoute ==
    \E t \in 1..Len(Topologies) :
      \E hs \in HoneypotSeqs(Topologies[t].chokepoints), jit \in JitChoices,
         health \in InitHealths, legit \in BOOLEAN, has \in BOOLEAN :
        LET path == findPath(Topologies[t].edges, Topologies[t].source, Topologies[t].goal, jit)
        IN /\ Len(path) >= 2
           /\ edges = Topologies[t].edges
           /\ hasEdges = has
           /\ honeypots = hs
           /\ enemy = NewEnemy(path, health, legit)
           /\ inPlay = TRUE
           /\ rpc = 1
           /\ lastCall = NoCall
           /\ PhaseIdle
           /\ ExtIdle

\* towers.forEach(tower => tower.update(deltaTime, enemies)), one Honeypot at a time
TowerUpdate ==
    /\ inPlay
    /\ rpc <= Len(honeypots)
    /\ LET h == honeypots[rpc]
           called == isAlive(enemy) /\ ~enemy.legitimate /\ InRange(enemy, h)
       IN /\ enemy' = updateHoneypot(enemy, edges, hasEdges, h)
          /\ lastCall' = IF called
                          THEN [node |-> h, out |-> rerouteToNode(enemy, edges, hasEdges, h).out,
                                before |-> enemy]
                          ELSE lastCall
    /\ rpc' = rpc + 1
    /\ UNCHANGED <<edges, hasEdges, honeypots, inPlay, phvars, extvars>>

\* enemies.filter(enemy => { enemy.update(deltaTime); return enemy.isAlive() })
EnemyUpdate ==
    /\ inPlay
    /\ rpc = Len(honeypots) + 1
    /\ enemy' = Enemy_update(enemy)
    /\ inPlay' = isAlive(enemy')
    /\ rpc' = 1
    /\ UNCHANGED <<edges, hasEdges, honeypots, lastCall, phvars, extvars>>

NextRoute == TowerUpdate \/ EnemyUpdate

SpecRoute == InitRoute /\ [][NextRoute]_vars

\* the game loop keeps running frames while the agent is in play
SpecRouteFair == SpecRoute /\ WF_vars(NextRoute)

----------------------------------------------------------------------------
(* Level-3 sessions: frames of the game loop, player input, the deferred    *)
(* analysis callback, and restart                                           *)

MaxSessions == 2

\* frames the model follows after the session has reached Scoring
ScoringFrames == 2

Min(a, b) == IF a <= b THEN a ELSE b

World == [lm |-> levelManager, ps |-> ps, timers |-> timers]

SetWorld(w) ==
    /\ levelManager' = w.lm
    /\ ps' = w.ps
    /\ timers' = w.timers

\* no agent is in play: the routing variables stay at rest during the phase model
RouteIdle ==
    /\ edges = <<>>
    /\ hasEdges = TRUE
    /\ honeypots = <<>>
    /\ enemy = NewEnemy(<<>>, 0, FALSE)
    /\ inPlay = FALSE
    /\ rpc = 1
    /\ lastCall = NoCall

InitL3 ==
    /\ RouteIdle
    /\ ExtIdle
    /\ LET w == enter(1, {})
       IN levelManager = w.lm /\ ps = w.ps /\ timers = w.timers
    /\ ended = <<>>
    /\ emitted = {}

\* setTimeout callbacks after wall milliseconds of wall-clock time
aged(wall) == {[t EXCEPT !.left = Max(0, @ - wall)] : t \in timers}

\* GameEngine.gameLoop -> PlayingState.update(deltaTime) one full frame time after the last
\* frame (deltaTime is capped at 100 ms); a frame while paused returns at once
Frame ==
    /\ ~ps.paused
    /\ levelManager.currentPhase = "scoring"
         => levelManager.phaseTimer < BattleSeconds * 1000 + ScoringFrames * DeltaTime
    /\ LET w1 == updateToSpawn([World EXCEPT !.timers = aged(DeltaTime)], DeltaTime)
       IN \E leaked \in 0..w1.ps.enemies :
            \E killed \in 0..(w1.ps.enemies - leaked) :
              SetWorld(updateFromEnemies(w1, leaked, killed))
    /\ UNCHANGED <<ended, emitted, rtvars, extvars>>

\* wall-clock time passes without a frame changing anything (game paused, or the tab hidden)
\* for at least the analysis delay
Stall ==
    /\ \E t \in timers : t.left > 0
    /\ timers' = aged(AnalysisDelay)
    /\ UNCHANGED <<levelManager, ps, ended, emitted, rtvars, extvars>>

\* a canvas click on a node
CanvasClick ==
    \E nodeIndex \in ClickNodes :
      /\ SetWorld(handleCanvasClick(World, nodeIndex))
      /\ UNCHANGED <<ended, emitted, rtvars, extvars>>

\* PlayingState.handleKeyDown with a tower hotkey
KeySelect ==
    \E type \in TowerTypes :
      /\ ps' = [ps EXCEPT !.selectedTowerType = type]
      /\ UNCHANGED <<levelManager, timers, ended, emitted, rtvars, extvars>>

\* PlayingState.handleTogglePause (Space, or the pause button)
TogglePause ==
    /\ ps' = [ps EXCEPT !.paused = ~@]
    /\ UNCHANGED <<levelManager, timers, ended, emitted, rtvars, extvars>>

\* the callback startTrainingPhase handed to setTimeout runs: any time after its delay,
\* on the controller that scheduled it
TimerFire ==
    \E t \in timers :
      /\ t.left = 0
      /\ timers' = timers \ {t}
      /\ IF t.owner = levelManager.id
         THEN /\ levelManager' = [levelManager EXCEPT !.aiAnalysis = analyzeAndGenerate(levelManager.committedTowers)]
              /\ ended' = ended
         ELSE /\ ended' = [ended EXCEPT ![t.owner].aiAnalysis =
                                          analyzeAndGenerate(ended[t.owner].committedTowers)]
              /\ levelManager' = levelManager
      /\ emitted' = emitted \cup {[owner |-> t.owner, during |-> levelManager.id]}
      /\ UNCHANGED <<ps, rtvars, extvars>>

\* handleRestart -> 'levelSelected' -> startLevel -> setState('playing'): exit() of the
\* running session and enter() of a new one; nothing cancels the scheduled callbacks
Restart ==
    /\ levelManager.id < MaxSessions
    /\ SetWorld(enter(levelManager.id + 1, timers))
    /\ ended' = Append(ended, [committedTowers |-> levelManager.committedTowers,
                               aiAnalysis |-> levelManager.aiAnalysis])
    /\ UNCHANGED <<emitted, rtvars, extvars>>

NextL3 == Frame \/ Stall \/ CanvasClick \/ KeySelect \/ TogglePause \/ TimerFire \/ Restart

SpecL3 == InitL3 /\ [][NextL3]_vars

----------------------------------------------------------------------------
(* Properties of the phase controller, checked under SpecL3 *)

SameSession == levelManager'.id = levelManager.id

\* C1: when a Level-3 session is ended or restarted while the analysis callback scheduled by
\* startTrainingPhase is outstanding, the callback assigns nothing on the ended session's
\* controller and emits no 'aiAnalysisComplete': the state of ended controllers never
\* changes, and every emission comes from the controller of the session it happens in.
C1_StaleDiscarded ==
    [][/\ \A s \in 1..Len(ended) : ended'[s] = ended[s]
       /\ \A e \in emitted' \ emitted : e.owner = e.during]_vars

\* C2: whenever currentPhase is 'battle', aiAnalysis has already been assigned.
C2_BattleHasAnalysis ==
    levelManager.currentPhase = "battle" => levelManager.aiAnalysis.done

PhaseSteps ==
    {<<"commitment", "training">>, <<"training", "battle">>, <<"battle", "scoring">>}

\* C3: within a session currentPhase moves only commitment -> training -> battle -> scoring,
\* at most one step per step of the program; no phase is skipped or revisited, scoring is
\* never left, and a session starts in commitment.
C3_PhaseOrder ==
    [][IF SameSession
       THEN \/ levelManager'.currentPhase = levelManager.currentPhase
            \/ <<levelManager.currentPhase, levelManager'.currentPhase>> \in PhaseSteps
       ELSE levelManager'.currentPhase = "commitment"]_vars

\* updatePhase ticks have run while the session was in scoring
C3_Witness ==
    /\ levelManager.currentPhase = "scoring"
    /\ levelManager.phaseTimer >= BattleSeconds * 1000 + ScoringFrames * DeltaTime

\* C4: an agent is spawned only when currentPhase is 'battle' and battleActive is set; no
\* agent exists before Battle.
C4_SpawnOnlyInBattle ==
    [][/\ (SameSession /\ \/ levelManager'.packetsSpawned > levelManager.packetsSpawned
                          \/ ps'.enemies > ps.enemies)
            => levelManager'.currentPhase = "battle" /\ levelManager'.battleActive
       /\ levelManager'.currentPhase \in {"commitment", "training"}
            => levelManager'.packetsSpawned = 0 /\ ps'.enemies = 0]_vars

\* an agent has been spawned in Battle
C4_Witness ==
    /\ levelManager.currentPhase = "battle"
    /\ levelManager.battleActive
    /\ levelManager.packetsSpawned >= 1
    /\ ps.enemies >= 1

\* C5: a step of a session that ends in Training or later places and removes no defense, and
\* after it the committed snapshot, and the tower list a finished analysis has read, are the
\* towers that stood when Commitment ended.
C5_CommittedFrozen ==
    [][(SameSession /\ levelManager'.currentPhase # "commitment") =>
          /\ ps'.towers = ps.towers
          /\ levelManager'.committedTowers = ps.towers
          /\ levelManager'.aiAnalysis.done => levelManager'.aiAnalysis.towers = ps.towers]_vars

\* a defense was committed, the analysis has run on it, and the player still has a tower
\* type selected while the session is past Commitment
C5_Witness ==
    /\ levelManager.currentPhase \in {"training", "battle"}
    /\ Len(ps.towers) >= 1
    /\ levelManager.aiAnalysis.done
    /\ levelManager.aiAnalysis.towers = ps.towers
    /\ ps.selectedTowerType # NoType
    /\ ~ps.paused

----------------------------------------------------------------------------
(* Properties of the re-routing logic, checked under SpecRoute *)

Spliced(out) == out \in {"splicedNext", "splicedPrev"}

SameRoute(e1, e2) ==
    /\ e1.path = e2.path
    /\ e1.currentPathIndex = e2.currentPathIndex
    /\ e1.off = e2.off
    /\ e1.attractedToNode = e2.attractedToNode

Joined(a, b) == \E i \in 1..Len(edges) : edges[i] = <<a, b>> \/ edges[i] = <<b, a>>

ValidPath(path) == \A i \in 1..(Len(path) - 1) : Joined(path[i], path[i + 1])

\* C6: for an agent whose visited-attractor set contains H, rerouteToNode(H) leaves the
\* agent's path, traversal index, position and active attractor exactly as they were.
C6_VisitedIdempotent ==
    \A h \in enemy.processedHoneypots :
        /\ SameRoute(rerouteToNode(enemy, edges, hasEdges, h).e, enemy)
        /\ rerouteToNode(enemy, edges, hasEdges, h).e = enemy

\* a honeypot in range has called rerouteToNode for a node the agent had already visited
C6_Witness ==
    /\ lastCall.out = "visited"
    /\ lastCall.node \in lastCall.before.processedHoneypots
    /\ lastCall.before.originalPath # <<>>

\* no route from H to the agent's goal, or none to H from either end of the current edge
NoRoute(e, h) ==
    LET prevNodeId == At(e.path, e.currentPathIndex)
        nextNodeId == At(e.path, e.currentPathIndex + 1)
        goalNodeId == At(e.path, PathLen(e) - 1)
    IN \/ findPath(edges, h, goalNodeId, NoJitter) = <<>>
       \/ /\ findPath(edges, prevNodeId, h, NoJitter) = <<>>
          /\ findPath(edges, nextNodeId, h, NoJitter) = <<>>

\* C7: when rerouteToNode(H) finds no path from H to the goal, or no path to H from either
\* endpoint of the edge being traversed, it leaves through one of its early returns and the
\* agent's path and traversal index are what they were before the call.
C7_RerouteFailure ==
    \A h \in Nodes :
        (hasEdges /\ isAlive(enemy) /\ HasNext(enemy) /\ NoRoute(enemy, h)) =>
            LET r == rerouteToNode(enemy, edges, hasEdges, h)
            IN /\ r.out \in {"visited", "hijack", "already", "noGoalPath", "deadEnd"}
               /\ r.e.path = enemy.path
               /\ r.e.currentPathIndex = enemy.currentPathIndex

\* a honeypot without a route to the goal was in range and the call returned early
C7_Witness ==
    /\ lastCall.out = "noGoalPath"
    /\ enemy.path = lastCall.before.path
    /\ enemy.currentPathIndex = lastCall.before.currentPathIndex

\* C8: while the agent's active attractor is some node A, an attraction event for a
\* different node H changes neither its path, its traversal index nor its active attractor.
C8_NoHijack ==
    \A h \in Nodes :
        (enemy.attractedToNode # NoNode /\ h # enemy.attractedToNode) =>
            /\ rerouteToNode(enemy, edges, hasEdges, h).e = enemy
            /\ SameRoute(updateHoneypot(enemy, edges, hasEdges, h), enemy)

\* a second honeypot has fired at an agent that was on its way to another one
C8_Witness ==
    /\ lastCall.out = "hijack"
    /\ lastCall.before.attractedToNode # NoNode
    /\ lastCall.before.attractedToNode # lastCall.node
    /\ enemy.attractedToNode = lastCall.before.attractedToNode

\* C9: the active attractor, once set to H, changes only by being cleared when the agent
\* arrives at H or when the attraction expires, and the visited-attractor set only grows.
C9_AttractorStable ==
    [][/\ enemy.processedHoneypots \subseteq enemy'.processedHoneypots
       /\ (enemy.attractedToNode # NoNode /\ enemy'.attractedToNode # enemy.attractedToNode) =>
             /\ enemy'.attractedToNode = NoNode
             /\ \/ /\ enemy'.currentPathIndex = enemy.currentPathIndex + 1
                   /\ enemy'.currentPathIndex < PathLen(enemy')
                   /\ At(enemy'.path, enemy'.currentPathIndex) = enemy.attractedToNode
                \/ (enemy.attractionTimer > 0 /\ enemy'.attractionTimer <= 0)]_vars

\* the agent was spliced towards a honeypot, arrived there, and its attractor was cleared
C9_Witness ==
    /\ hasEdges
    /\ enemy.originalPath # <<>>
    /\ enemy.path # enemy.originalPath
    /\ lastCall.before.attractedToNode = lastCall.node
    /\ lastCall.node \in enemy.processedHoneypots
    /\ enemy.attractedToNode = NoNode
    /\ enemy.currentPathIndex < PathLen(enemy)
    /\ At(enemy.path, enemy.currentPathIndex) = lastCall.node

\* C10: after a successful splice by rerouteToNode(H) the new path is a path of the graph,
\* starts on an endpoint of the edge the agent was traversing, contains H, ends on the goal
\* the agent had before, and the traversal index is 0.
C10_SplicedPathValid ==
    \A h \in Nodes :
        LET r == rerouteToNode(enemy, edges, hasEdges, h)
        IN (isAlive(enemy) /\ Spliced(r.out)) =>
              /\ ValidPath(r.e.path)
              /\ r.e.path[1] \in {At(enemy.path, enemy.currentPathIndex),
                                   At(enemy.path, enemy.currentPathIndex + 1)}
              /\ SeqHas(r.e.path, h)
              /\ r.e.path[Len(r.e.path)] = enemy.path[Len(enemy.path)]
              /\ r.e.currentPathIndex = 0

\* a honeypot has spliced the path of an agent that was part-way along an edge
C10_Witness ==
    /\ Spliced(lastCall.out)
    /\ lastCall.before.off > 0
    /\ enemy.path # lastCall.before.path
    /\ enemy.currentPathIndex = 0

\* the Honeypot whose turn it is fires an attraction event at the agent
Fires ==
    /\ inPlay
    /\ rpc <= Len(honeypots)
    /\ isAlive(enemy)
    /\ ~enemy.legitimate
    /\ InRange(enemy, honeypots[rpc])

\* C31: H becomes the agent's active attractor only as part of a performed splice: a
\* rerouteToNode(H) call that returns without replacing the agent's path leaves the active
\* attractor as it was before the call.
C31_AttractorOnlyBySplice ==
    Fires =>
        LET r == rerouteToNode(enemy, edges, hasEdges, honeypots[rpc])
        IN ~Spliced(r.out) => r.e.attractedToNode = enemy.attractedToNode

\* this step moves the agent onto the node that is its active attractor
ArrivesAtAttractor ==
    /\ enemy.attractedToNode # NoNode
    /\ enemy'.path = enemy.path
    /\ enemy'.currentPathIndex = enemy.currentPathIndex + 1
    /\ enemy'.currentPathIndex < PathLen(enemy')
    /\ At(enemy'.path, enemy'.currentPathIndex) = enemy.attractedToNode

\* C32: in the step in which the agent arrives at the node that is its active attractor,
\* the active attractor is cleared and the node joins the visited-attractor set; the set
\* never loses a node, and an attraction event for a node of the set leaves the agent as
\* it is.
C32_ArrivalClearsAttractor ==
    [][/\ ArrivesAtAttractor =>
             /\ enemy'.attractedToNode = NoNode
             /\ enemy.attractedToNode \in enemy'.processedHoneypots
       /\ enemy.processedHoneypots \subseteq enemy'.processedHoneypots
       /\ \A h \in enemy'.processedHoneypots :
             /\ ~Spliced(rerouteToNode(enemy', edges, hasEdges, h).out)
             /\ rerouteToNode(enemy', edges, hasEdges, h).e = enemy']_vars

\* the agent was spliced towards a honeypot and arrived there; the honeypot fired again
\* and was refused
C32_Witness ==
    /\ hasEdges
    /\ enemy.originalPath # <<>>
    /\ enemy.path # enemy.originalPath
    /\ enemy.attractedToNode = NoNode
    /\ lastCall.out = "visited"
    /\ lastCall.node \in enemy.processedHoneypots
    /\ lastCall.before.path = enemy.path

\* C34: an agent that keeps being updated leaves play after finitely many frames, eliminated
\* or arrived at its goal, whichever Honeypots fire at it and whenever; its path is not
\* spliced for ever.
C34_AgentLeavesPlay == <>(~inPlay /\ (~enemy.alive \/ enemy.reachedGoal))

\* an agent whose path was spliced has arrived at its goal and left play
C34_Witness ==
    /\ ~inPlay
    /\ enemy.reachedGoal
    /\ enemy.alive
    /\ enemy.originalPath # <<>>
    /\ enemy.path # enemy.originalPath
    /\ enemy.processedHoneypots # {}

----------------------------------------------------------------------------
(* Pathfinding.findPath called on its own, on every graph of a family, for  *)
(* every pair of nodes, with and without cost jitter                        *)

\* the edges a graph of the family may hold, in list order
CandidateEdges == << <<0,1>>, <<1,2>>, <<2,4>>, <<0,3>>, <<3,4>>, <<1,4>> >>

\* the candidate edges whose index is in S, in list order
PickEdges(S) ==
    LET F[i \in 0..Len(CandidateEdges)] ==
            IF i = 0 THEN <<>>
            ELSE IF i \in S THEN Append(F[i - 1], CandidateEdges[i]) ELSE F[i - 1]
    IN F[Len(CandidateEdges)]

PathGraphs ==
    {PickEdges(S) : S \in SUBSET (1..Len(CandidateEdges))}
        \cup {Topologies[t].edges : t \in 1..Len(Topologies)}

InitPath ==
    /\ edges \in PathGraphs
    /\ hasEdges = TRUE
    /\ honeypots = <<>>
    /\ enemy = NewEnemy(<<>>, 0, FALSE)
    /\ inPlay = FALSE
    /\ rpc = 1
    /\ lastCall = NoCall
    /\ PhaseIdle
    /\ \E start \in Nodes, goal \in Nodes, jit \in JitChoices :
         pf = [start |-> start, goal |-> goal, jit |-> jit, called |-> FALSE, path |-> <<>>]
    /\ tc = <<>>
    /\ rl = <<>>
    /\ store = <<>>
    /\ gen = <<>>
    /\ ck = <<>>
    /\ ai = <<>>
    /\ ws = <<>>
    /\ play = <<>>
    /\ agents = <<>>
    /\ bus = <<>>

\* Pathfinding.findPath(nodes, edges, start, goal, randomize)
FindPathCall ==
    /\ ~pf.called
    /\ pf' = [pf EXCEPT !.called = TRUE,
                        !.path = findPath(edges, pf.start, pf.goal, pf.jit)]
    /\ UNCHANGED <<rtvars, phvars, tc, rl, store, gen, ck, ai, ws, play, agents, bus>>

NextPath == FindPathCall

SpecPath == InitPath /\ [][NextPath]_vars

----------------------------------------------------------------------------
(* Properties of findPath, checked under SpecPath *)

RECURSIVE ReachFrom(_, _, _)
\* the nodes joined to a node of R by at most n edges of es
ReachFrom(es, R, n) ==
    IF n = 0 THEN R
    ELSE ReachFrom(es,
                   R \cup {b \in Nodes : \E i \in 1..Len(es) :
                              \/ es[i][1] \in R /\ es[i][2] = b
                              \/ es[i][2] \in R /\ es[i][1] = b},
                   n - 1)

\* a route exists from s to g
Connected(es, s, g) == g \in ReachFrom(es, {s}, Cardinality(Nodes))

\* C11: when a route exists from s to g2, findPath, with or without jitter, returns a
\* sequence from s to g2 in which consecutive nodes are joined by an edge of the graph;
\* for edges [[0,1],[1,2]] the result for (0,2) is [0,1,2].
C11_PathJoinsEndpoints ==
    (pf.called /\ Connected(edges, pf.start, pf.goal)) =>
        /\ Len(pf.path) >= 1
        /\ pf.path[1] = pf.start
        /\ pf.path[Len(pf.path)] = pf.goal
        /\ ValidPath(pf.path)
        /\ (edges = << <<0,1>>, <<1,2>> >> /\ pf.start = 0 /\ pf.goal = 2)
              => pf.path = <<0, 1, 2>>

\* a jittered search returned a route over at least two edges that is not the only one
C11_Witness ==
    /\ pf.called
    /\ pf.jit # NoJitter
    /\ Len(pf.path) >= 3
    /\ pf.path # findPath(edges, pf.start, pf.goal, NoJitter)

\* C12: when the graph holds no route from s to g2, findPath returns the empty sequence.
C12_NoRouteEmpty ==
    (pf.called /\ ~Connected(edges, pf.start, pf.goal)) => pf.path = <<>>

\* a search that explored some edges and found the goal cut off
C12_Witness ==
    /\ pf.called
    /\ ~Connected(edges, pf.start, pf.goal)
    /\ Cardinality(ReachFrom(edges, {pf.start}, Cardinality(Nodes))) >= 3
    /\ pf.path = <<>>

\* C13: findPath(g, s, s) returns exactly [s], for every node s, with or without jitter.
C13_TrivialPath ==
    (pf.called /\ pf.start = pf.goal) => pf.path = <<pf.start>>

\* a jittered call with start = goal on a graph in which the node has neighbours
C13_Witness ==
    /\ pf.called
    /\ pf.start = pf.goal
    /\ pf.jit # NoJitter
    /\ ReachFrom(edges, {pf.start}, 1) # {pf.start}
    /\ pf.path = <<pf.start>>

----------------------------------------------------------------------------
(* Topology loading: LevelManager.loadTopology at construction,             *)
(* LevelManagerAdaptive.switchTopology and                                  *)
(* LevelManagerEconomic.rotateTopology                                      *)

\* Config.TOPOLOGIES: catalog name -> topology (an index into Topologies)
Catalog ==
    ("level1" :> 1) @@ ("adaptive1" :> 2) @@ ("adaptive2" :> 3) @@ ("adaptive3" :> 4)
        @@ ("stackelberg_mesh" :> 5) @@ ("dynamic_mesh" :> 6)

\* a level configuration without a topology entry
NoName == ""

\* the names a caller may ask for: those of the catalog, one it does not hold, and none
RequestNames == DOMAIN Catalog \cup {"unlisted", NoName}

\* LevelManagerEconomic.topologyVariants
topologyVariants == <<"level1", "adaptive1", "adaptive2", "adaptive3">>

\* the value of a field that was never assigned
Undefined == <<>>

\* the return values a caller of the three operations can see
RetUndefined == "undefined"
RetTrue == "true"
RetFalse == "false"

\* a level manager before loadTopology has run; name is levelConfig.topology
NewManager(kind, name) ==
    [kind |-> kind, constructed |-> FALSE, topology |-> name,
     defined |-> FALSE, edges |-> Undefined, sources |-> Undefined, goals |-> Undefined,
     chokepoints |-> Undefined, paths |-> Undefined,
     ret |-> RetUndefined, logged |-> FALSE, emitted |-> "none"]

\* LevelManager.calculatePaths: the non-empty findPath results, source by source, goal by goal
calculatePaths(c, jit) ==
    LET ng == Len(c.goals)
        all == [k \in 1..(Len(c.sources) * ng) |->
                   findPath(c.edges, c.sources[((k - 1) \div ng) + 1],
                            c.goals[((k - 1) % ng) + 1], jit)]
    IN [c EXCEPT !.paths = SelectSeq(all, LAMBDA path : Len(path) > 0)]

\* the assignments of nodes, edges, sources, goals and chokepoints from a topology object
Install(c, t) ==
    [c EXCEPT !.defined = TRUE, !.edges = t.edges, !.sources = <<t.source>>,
              !.goals = <<t.goal>>, !.chokepoints = t.chokepoints]

\* LevelManager.loadTopology, called by the constructor
loadTopology(c, jit) ==
    LET topoName == IF c.topology = NoName THEN "level1" ELSE c.topology
        c0 == [c EXCEPT !.constructed = TRUE, !.emitted = "none", !.logged = FALSE]
    IN IF topoName \notin DOMAIN Catalog
       THEN [c0 EXCEPT !.logged = TRUE, !.ret = RetUndefined]
       ELSE [calculatePaths(Install(c0, Topologies[Catalog[topoName]]), jit)
                EXCEPT !.ret = RetUndefined]

\* LevelManagerAdaptive.switchTopology
switchTopology(c, newTopologyName, jit) ==
    LET c0 == [c EXCEPT !.emitted = "none", !.logged = FALSE]
    IN IF newTopologyName \notin DOMAIN Catalog
       THEN [c0 EXCEPT !.logged = TRUE, !.ret = RetFalse]
       ELSE LET c1 == Install(c0, Topologies[Catalog[newTopologyName]])
                c2 == calculatePaths([c1 EXCEPT !.topology = newTopologyName], jit)
            IN [c2 EXCEPT !.emitted = "topologySwitch", !.ret = RetTrue]

\* LevelManagerEconomic.rotateTopology; generated is what generateDynamicTopology
\* returned (an object, a name, or nothing when no towers were passed), variant the
\* random variant drawn when no name is known
rotateTopology(c, generated, variant, jit) ==
    LET c0 == [c EXCEPT !.emitted = "none", !.logged = FALSE, !.ret = RetUndefined]
        isObject == generated.kind = "object"
        topologyName == IF generated.kind = "none" THEN variant ELSE generated.name
        known == isObject \/ topologyName \in DOMAIN Catalog
        topologyData == IF isObject THEN Topologies[generated.data]
                        ELSE Topologies[Catalog[topologyName]]
    IN IF ~known THEN c0
       ELSE LET c1 == Install(c0, topologyData)
                c2 == calculatePaths([c1 EXCEPT !.topology = topologyName], jit)
            IN [c2 EXCEPT !.emitted = "economicTopologyRotation"]

\* the fields the three operations may install
GraphFields(c) ==
    [topology |-> c.topology, defined |-> c.defined, edges |-> c.edges,
     sources |-> c.sources, goals |-> c.goals, chokepoints |-> c.chokepoints,
     paths |-> c.paths]

\* what generateDynamicTopology can hand to rotateTopology
GeneratedValues ==
    {[kind |-> "none", name |-> NoName, data |-> 0]}
        \cup {[kind |-> "object", name |-> "Smart DIRECT (AGGRESSIVE)", data |-> t] :
                 t \in 1..Len(Topologies)}
        \cup {[kind |-> "string", name |-> n, data |-> 0] : n \in RequestNames \ {NoName}}

\* jitter assignments followed by the topology model
TopoJits == {NoJitter, JitterAround(2)}

\* no operation yet; lookup: the operation looked its name up in the catalog
NoRequest ==
    [op |-> "none", name |-> NoName, lookup |-> FALSE,
     before |-> GraphFields(NewManager("adaptive", NoName))]

InitTopo ==
    /\ RouteIdle
    /\ PhaseIdle
    /\ pf = <<>>
    /\ rl = <<>>
    /\ store = <<>>
    /\ gen = <<>>
    /\ ck = <<>>
    /\ ai = <<>>
    /\ ws = <<>>
    /\ play = <<>>
    /\ agents = <<>>
    /\ bus = <<>>
    /\ \E kind \in {"adaptive", "economic"}, name \in RequestNames :
         tc = [c |-> NewManager(kind, name), last |-> NoRequest]

\* new LevelManagerAdaptive(levelConfig) / new LevelManagerEconomic(levelConfig)
Construct ==
    /\ ~tc.c.constructed
    /\ \E jit \in TopoJits :
         tc' = [c |-> loadTopology(tc.c, jit),
                last |-> [op |-> "load",
                          name |-> IF tc.c.topology = NoName THEN "level1" ELSE tc.c.topology,
                          lookup |-> TRUE,
                          before |-> GraphFields(tc.c)]]
    /\ UNCHANGED <<rtvars, phvars, pf, rl, store, gen, ck, ai, ws, play, agents, bus>>

\* onWaveComplete -> switchTopology(selectNextTopology(towers), towers)
SwitchTopology ==
    /\ tc.c.constructed
    /\ tc.c.kind = "adaptive"
    /\ \E name \in RequestNames \ {NoName}, jit \in TopoJits :
         tc' = [c |-> switchTopology(tc.c, name, jit),
                last |-> [op |-> "switch", name |-> name, lookup |-> TRUE,
                          before |-> GraphFields(tc.c)]]
    /\ UNCHANGED <<rtvars, phvars, pf, rl, store, gen, ck, ai, ws, play, agents, bus>>

\* completeWave -> rotateTopology(towers)
RotateTopology ==
    /\ tc.c.constructed
    /\ tc.c.kind = "economic"
    /\ \E generated \in GeneratedValues, jit \in TopoJits :
         \E k \in 1..Len(topologyVariants) :
           /\ topologyVariants[k] # tc.c.topology
           /\ tc' = [c |-> rotateTopology(tc.c, generated, topologyVariants[k], jit),
                     last |-> [op |-> "rotate",
                               name |-> IF generated.kind = "none" THEN topologyVariants[k]
                                        ELSE generated.name,
                               lookup |-> generated.kind # "object",
                               before |-> GraphFields(tc.c)]]
    /\ UNCHANGED <<rtvars, phvars, pf, rl, store, gen, ck, ai, ws, play, agents, bus>>

NextTopo == Construct \/ SwitchTopology \/ RotateTopology

SpecTopo == InitTopo /\ [][NextTopo]_vars

----------------------------------------------------------------------------
(* Properties of topology loading, checked under SpecTopo *)

\* the last operation asked for a name the catalog does not hold
MissingRequested == tc.last.lookup /\ tc.last.name \notin DOMAIN Catalog

\* C14: when a topology name absent from the catalog is requested (at session load, on an
\* adaptive switch, or on an economic rotation), the operation installs or changes no graph
\* field of the controller and its caller is told of the failure: it gets a return value
\* that a successful call does not give.
C14_MissingTopologyAborts ==
    MissingRequested =>
        /\ GraphFields(tc.c) = tc.last.before
        /\ tc.c.ret = RetFalse

----------------------------------------------------------------------------
(* The Q-learning enemy strategist (EconomicRL) and its persistent store.
   Exploration rates are counted in millionths and Q-values in hundredths. A JavaScript
   value the code may meet is a record [t, n, rows]: t is its type, n the number when
   t = "number", rows the table rows when t = "object". *)

JNum(n) == [t |-> "number", n |-> n, rows |-> <<>>]
JNaN == [t |-> "NaN", n |-> 0, rows |-> <<>>]
JUndefined == [t |-> "undefined", n |-> 0, rows |-> <<>>]
JNull == [t |-> "null", n |-> 0, rows |-> <<>>]
JString == [t |-> "string", n |-> 0, rows |-> <<>>]
JObject(rows) == [t |-> "object", n |-> 0, rows |-> rows]

\* JavaScript truthiness (JString stands for a non-empty string)
Truthy(v) == \/ v.t \in {"object", "string"}
             \/ v.t = "number" /\ v.n # 0

\* a || b
OrElse(a, b) == IF Truthy(a) THEN a ELSE b

actions == <<"AGGRESSIVE", "BALANCED", "DEFENSIVE">>
ActionSet == {actions[i] : i \in 1..Len(actions)}

\* Config.RL_PARAMS
ParamEpsilon == 100000
AlphaPermille == 100
GammaPercent == 95
\* loadQTable: Math.max(0.1, data.epsilon * 0.995)
DecayPermille == 995
EpsilonFloor == 100000
\* reset(): this.epsilon = 0.3
ResetEpsilon == 300000
\* Q-values are counted in hundredths
QScale == 100

\* currentState and currentAction before the first episode (null)
NoState == ""
NoAction == ""

\* what the learner reads of its level manager
Envs == [credits : {0, 2500}, chokepoints : {1}, nodes : {5}, fCount : {0}, iCount : {0},
         successRate : {80}]

\* the four buckets joined by hyphens
getState_Hyphens(env) ==
    (IF env.credits < 500 THEN "LOW" ELSE IF env.credits < 1500 THEN "MED" ELSE "HIGH")
    \o "-" \o (IF env.chokepoints * 10 > 2 * env.nodes THEN "DENSE" ELSE "SPARSE")
    \o "-" \o (IF env.fCount * 2 > env.iCount * 3 THEN "FW_HEAVY"
               ELSE IF env.iCount > env.fCount THEN "IDS_HEAVY" ELSE "BALANCED")
    \o "-" \o (IF env.successRate > 70 THEN "DEFENDER_STRONG" ELSE "ATTACKER_STRONG")

\* getState(): `${creditState}_${densityState}_${towerRatio}_${performanceState}`
getState(env) ==
    LET creditState == IF env.credits < 500 THEN "LOW"
                       ELSE IF env.credits < 1500 THEN "MED" ELSE "HIGH"
        densityState == IF env.chokepoints * 10 > 2 * env.nodes THEN "DENSE" ELSE "SPARSE"
        towerRatio == IF env.fCount * 2 > env.iCount * 3 THEN "FW_HEAVY"
                      ELSE IF env.iCount > env.fCount THEN "IDS_HEAVY" ELSE "BALANCED"
        performanceState == IF env.successRate > 70 THEN "DEFENDER_STRONG"
                            ELSE "ATTACKER_STRONG"
    IN creditState \o "_" \o densityState \o "_" \o towerRatio \o "_" \o performanceState

StateKeys == {getState(env) : env \in Envs}

initializeQTable == JObject(<<>>)

\* this.Q[state] is there
HasRow(q, state) == q.t = "object" /\ state \in DOMAIN q.rows

\* the persistent store: nothing under the key, text JSON.parse rejects, or JSON text
\* whose top-level value is top and whose members are Q, episodes and epsilon
NoBlob == [kind |-> "none", top |-> "none", Q |-> JUndefined, episodes |-> JUndefined,
           epsilon |-> JUndefined]
GarbageBlob == [NoBlob EXCEPT !.kind = "garbage"]
JsonBlob(top, q, episodes, epsilon) ==
    [kind |-> "json", top |-> top, Q |-> q, episodes |-> episodes, epsilon |-> epsilon]

\* JSON.stringify of one member followed by JSON.parse: NaN is written as null, an
\* undefined member is left out, and the rest comes back as it was
Persisted(v) == IF v.t = "NaN" THEN JNull ELSE v

\* data.<member> after JSON.parse
Member(blob, f) == IF blob.top = "object" THEN blob[f] ELSE JUndefined

\* data.epsilon * 0.995
Decayed(v) ==
    CASE v.t = "number" -> JNum((v.n * DecayPermille) \div 1000)
      [] v.t = "null" -> JNum(0)
      [] OTHER -> JNaN

\* Math.max(0.1, x)
MaxFloor(v) == IF v.t = "number" THEN JNum(Max(EpsilonFloor, v.n)) ELSE JNaN

\* loadQTable(): the learner after the call and the value returned
loadQTable(l, blob) ==
    CASE blob.kind = "none" -> [l |-> l, ret |-> JNull]
      [] blob.kind = "garbage" -> [l |-> [l EXCEPT !.logged = TRUE], ret |-> JNull]
      [] blob.kind = "json" /\ blob.top = "null" ->
             [l |-> [l EXCEPT !.logged = TRUE], ret |-> JNull]
      [] OTHER ->
             [l |-> [l EXCEPT !.totalEpisodes = OrElse(Member(blob, "episodes"), JNum(0)),
                              !.epsilon = MaxFloor(Decayed(Member(blob, "epsilon")))],
              ret |-> Member(blob, "Q")]

\* saveQTable(): the blob written under the key
saveQTable(l) ==
    JsonBlob("object", Persisted(l.Q), Persisted(l.totalEpisodes), Persisted(l.epsilon))

\* new EconomicRL(levelManager)
NewEconomicRL(blob) ==
    LET l0 == [Q |-> JUndefined, epsilon |-> JNum(ParamEpsilon), totalEpisodes |-> JUndefined,
               currentState |-> NoState, currentAction |-> NoAction, episodeReward |-> 0,
               logged |-> FALSE, threw |-> FALSE, missingRead |-> FALSE]
        r == loadQTable(l0, blob)
    IN [r.l EXCEPT !.Q = OrElse(r.ret, initializeQTable),
                   !.totalEpisodes = JNum(0)]

\* this.Q[state] = {}; actions.forEach(a => this.Q[state][a] = Math.random() * 2)
WithRow(q, state, row) ==
    JObject([k \in DOMAIN q.rows \cup {state} |-> IF k = state THEN row ELSE q.rows[k]])

\* the action with the greatest value, the first one on ties
BestOf(row) ==
    LET pick[i \in 1..Len(actions)] ==
            IF i = 1 THEN 1
            ELSE IF row[actions[i]] > row[actions[pick[i - 1]]] THEN i ELSE pick[i - 1]
    IN actions[pick[Len(actions)]]

\* getBestAction(state): row is what Math.random() gives an unseen state. A table that is
\* no object (a number or a string loaded from the store) takes no property: the
\* assignment throws in the strict code of a module
getBestAction(l, state, row) ==
    IF l.Q.t # "object" THEN [l |-> [l EXCEPT !.threw = TRUE], ret |-> NoAction]
    ELSE LET q == IF HasRow(l.Q, state) THEN l.Q ELSE WithRow(l.Q, state, row)
         IN [l |-> [l EXCEPT !.Q = q], ret |-> BestOf(q.rows[state])]

\* selectAction(state): explore says Math.random() < this.epsilon, which no draw
\* satisfies when epsilon is NaN
selectAction(l, state, explore, randomAction, row) ==
    IF explore /\ l.epsilon.t = "number" THEN [l |-> l, ret |-> randomAction]
    ELSE getBestAction(l, state, row)

\* JavaScript's ++ on the episode counter
Incremented(v) ==
    CASE v.t = "number" -> JNum(v.n + 1)
      [] v.t = "null" -> JNum(1)
      [] OTHER -> JNaN

startEpisode(l, env, explore, randomAction, row) ==
    LET s == getState(env)
        r == selectAction([l EXCEPT !.currentState = s, !.threw = FALSE,
                                    !.missingRead = FALSE],
                          s, explore, randomAction, row)
    IN IF r.l.threw THEN r.l
       ELSE [r.l EXCEPT !.currentAction = r.ret,
                        !.totalEpisodes = Incremented(l.totalEpisodes)]

\* the reward without the penalty for a rich player
calculateReward_NoPenalty(waveResult, env) ==
    waveResult.leaked * 10 - waveResult.blocked * 5
    + (IF env.credits <= 0 THEN 50 ELSE 0)

\* calculateReward(waveResult), where env.credits is levelManager.credits
calculateReward(waveResult, env) ==
    waveResult.leaked * 10 - waveResult.blocked * 5
    + (IF env.credits <= 0 THEN 50 ELSE 0)
    - (IF env.credits > 2000 THEN 20 ELSE 0)

\* the value of the first action alone
MaxOf_First(row) == row[actions[1]]

\* Math.max(...this.actions.map(a => row[a]))
MaxOf(row) ==
    LET m[i \in 1..Len(actions)] ==
            IF i = 1 THEN row[actions[1]] ELSE Max(m[i - 1], row[actions[i]])
    IN m[Len(actions)]

\* updateQTable(waveResult): the learner and the store after the call. Reading a row
\* the table does not hold gives undefined, and reading an action of undefined throws
updateQTable(l, blob, waveResult, env, saveRoll) ==
    IF l.currentState = NoState \/ l.currentAction = NoAction THEN [l |-> l, store |-> blob]
    ELSE
      LET reward == calculateReward(waveResult, env)
          l1 == [l EXCEPT !.episodeReward = @ + reward, !.threw = FALSE,
                          !.missingRead = FALSE]
          nextState == getState(env)
      IN IF ~HasRow(l.Q, l.currentState) \/ ~HasRow(l.Q, nextState)
         THEN [l |-> [l1 EXCEPT !.threw = TRUE, !.missingRead = TRUE], store |-> blob]
         ELSE
           LET currentQ == l.Q.rows[l.currentState][l.currentAction]
               maxNextQ == MaxOf(l.Q.rows[nextState])
               newQ == currentQ
                       + (AlphaPermille * (reward * QScale * 100 + GammaPercent * maxNextQ
                                           - 100 * currentQ)) \div 100000
               l2 == [l1 EXCEPT !.Q = JObject([l.Q.rows EXCEPT
                                      ![l.currentState][l.currentAction] = newQ])]
           IN [l |-> l2, store |-> IF saveRoll THEN saveQTable(l2) ELSE blob]

\* reset()
reset(l) ==
    [l EXCEPT !.Q = initializeQTable, !.totalEpisodes = JNum(0),
              !.epsilon = JNum(ResetEpsilon), !.episodeReward = 0,
              !.threw = FALSE, !.missingRead = FALSE]

----------------------------------------------------------------------------
(* The learner over its life: construction from the store, episodes, updates and resets.
   rl holds the learner l, the last operation op, the store the last construction read
   and the number of operations so far. *)

MaxOps == 4

\* rows Math.random() * 2 may give an unseen state
RandomRows == { [a \in ActionSet |-> 0],
                [a \in ActionSet |-> IF a = "BALANCED" THEN 150 ELSE 50] }

WaveResults == { [leaked |-> 2, blocked |-> 0], [leaked |-> 0, blocked |-> 3] }

\* what the store may hold when the page is opened
InitialBlobs ==
    {NoBlob, GarbageBlob,
     JsonBlob("null", JUndefined, JUndefined, JUndefined),
     JsonBlob("number", JUndefined, JUndefined, JUndefined)}
    \cup { JsonBlob("object", q, ep, eps) :
             q \in {initializeQTable, JUndefined, JNum(7)},
             ep \in {JNum(3), JString},
             eps \in {JNum(ResetEpsilon), JNum(ParamEpsilon), JUndefined, JNull} }

NoLearner == [Q |-> JUndefined, epsilon |-> JUndefined, totalEpisodes |-> JUndefined,
              currentState |-> NoState, currentAction |-> NoAction, episodeReward |-> 0,
              logged |-> FALSE, threw |-> FALSE, missingRead |-> FALSE]

InitRL ==
    /\ RouteIdle
    /\ PhaseIdle
    /\ pf = <<>>
    /\ tc = <<>>
    /\ gen = <<>>
    /\ ck = <<>>
    /\ ai = <<>>
    /\ ws = <<>>
    /\ play = <<>>
    /\ agents = <<>>
    /\ bus = <<>>
    /\ \E blob \in InitialBlobs : store = [blob |-> blob, saved |-> FALSE]
    /\ rl = [l |-> NoLearner, op |-> "none", read |-> NoBlob, fromSave |-> FALSE, n |-> 0]

\* a session starts: new LevelManagerEconomic builds its learner from the store
NewLearner ==
    /\ rl.n < MaxOps
    /\ rl' = [l |-> NewEconomicRL(store.blob), op |-> "construct", read |-> store.blob,
              fromSave |-> store.saved, n |-> rl.n + 1]
    /\ UNCHANGED <<rtvars, phvars, pf, tc, store, gen, ck, ai, ws, play, agents, bus>>

\* startWave: economicRL.startEpisode()
StartEpisode ==
    /\ rl.op # "none"
    /\ rl.n < MaxOps
    /\ \E env \in Envs, explore \in BOOLEAN, randomAction \in ActionSet, row \in RandomRows :
         rl' = [rl EXCEPT !.l = startEpisode(rl.l, env, explore, randomAction, row),
                          !.op = "start", !.n = @ + 1]
    /\ UNCHANGED <<rtvars, phvars, pf, tc, store, gen, ck, ai, ws, play, agents, bus>>

\* completeWave: economicRL.updateQTable(waveResult)
UpdateQTable ==
    /\ rl.op # "none"
    /\ rl.n < MaxOps
    /\ \E waveResult \in WaveResults, env \in Envs, saveRoll \in BOOLEAN :
         LET r == updateQTable(rl.l, store.blob, waveResult, env, saveRoll)
         IN /\ rl' = [rl EXCEPT !.l = r.l, !.op = "update", !.n = @ + 1]
            /\ store' = [blob |-> r.store, saved |-> store.saved \/ r.store # store.blob]
    /\ UNCHANGED <<rtvars, phvars, pf, tc, gen, ck, ai, ws, play, agents, bus>>

\* economicRL.reset()
ResetLearner ==
    /\ rl.op # "none"
    /\ rl.n < MaxOps
    /\ rl' = [rl EXCEPT !.l = reset(rl.l), !.op = "reset", !.n = @ + 1]
    /\ store' = [blob |-> NoBlob, saved |-> FALSE]
    /\ UNCHANGED <<rtvars, phvars, pf, tc, gen, ck, ai, ws, play, agents, bus>>

NextRL == NewLearner \/ StartEpisode \/ UpdateQTable \/ ResetLearner

SpecRL == InitRL /\ [][NextRL]_vars

----------------------------------------------------------------------------
(* Properties of the learner, checked under SpecRL *)

\* the learner was just constructed
Constructed == rl.op = "construct"

\* JSON text that is not a table, an episode count and an exploration rate
Malformed(blob) ==
    /\ blob.kind = "json"
    /\ \/ blob.top # "object"
       \/ blob.Q.t # "object"
       \/ blob.episodes.t # "number"
       \/ blob.epsilon.t # "number"

\* C15: a learner constructed while the store holds no blob, text that does not parse, or
\* a parsable blob whose table, episode count or exploration rate is missing or of the
\* wrong type, is constructed without an error reaching the caller, has a freshly
\* initialized (empty) table, and has a number as its exploration rate.
C15_CorruptStoreStartsFresh ==
    (Constructed /\ (rl.read.kind \in {"none", "garbage"} \/ Malformed(rl.read))) =>
        /\ ~rl.l.threw
        /\ rl.l.Q = initializeQTable
        /\ rl.l.epsilon.t = "number"

\* C16: no operation of the learner reads a row the Q-table does not hold: the row of the
\* current state, whether its action was picked by exploration or by exploitation, and
\* the row of the next state are there when the update reads them.
C16_RowsReadExist == ~rl.l.missingRead

\* C17: a learner constructed from a store that a learner saved has the saved table as
\* its table and the saved episode count as its episode count.
C17_RoundTrip ==
    (Constructed /\ rl.fromSave) =>
        /\ rl.l.Q = rl.read.Q
        /\ rl.l.totalEpisodes = rl.read.episodes

\* the construction read a persisted table with a numeric exploration rate
Reloaded ==
    /\ Constructed
    /\ rl.read.kind = "json" /\ rl.read.top = "object"
    /\ rl.read.Q.t = "object"
    /\ rl.read.epsilon.t = "number"

\* C18: after every reload of a persisted table the exploration rate is the persisted
\* rate times 0.995, which is strictly below the persisted rate.
C18_ReloadDecays ==
    Reloaded =>
        /\ rl.l.epsilon = Decayed(rl.read.epsilon)
        /\ rl.l.epsilon.n < rl.read.epsilon.n

\* a call of updateQTable that reached its assignment to the table
UpdateCompleted ==
    /\ rl'.op = "update"
    /\ rl.l.currentState # NoState
    /\ rl.l.currentAction # NoAction
    /\ ~rl'.l.threw

\* C25: one Q-update for the episode's state s and action a with next state s2 sets
\* Q(s, a) to Q(s, a) + alpha * (r + gamma * max over b of Q(s2, b) - Q(s, a)), to the
\* hundredth the table is kept in, where r = leaked * 10 - blocked * 5, plus 50 when the
\* player's credits are used up, minus 20 when they exceed 2000; every other entry of the
\* table stays as it was.
C25_QUpdate ==
    [][UpdateCompleted =>
         \E waveResult \in WaveResults,
            env \in {e \in Envs : getState(e) \in DOMAIN rl.l.Q.rows} :
            LET s == rl.l.currentState
                a == rl.l.currentAction
                s2 == getState(env)
                r == waveResult.leaked * 10 - waveResult.blocked * 5
                     + (IF env.credits <= 0 THEN 50 ELSE 0)
                     - (IF env.credits > 2000 THEN 20 ELSE 0)
                before == rl.l.Q.rows
                after == rl'.l.Q.rows
                best == CHOOSE m \in {before[s2][b] : b \in ActionSet} :
                            \A b \in ActionSet : before[s2][b] <= m
                \* 1000 times the value the rule gives, in hundredths, for alpha = 0.1
                \* and gamma = 0.95
                exact == 900 * before[s][a] + 10000 * r + 95 * best
            IN /\ DOMAIN after = DOMAIN before
               /\ 1000 * after[s][a] <= exact
               /\ exact < 1000 * (after[s][a] + 1)
               /\ \A k \in DOMAIN before, b \in ActionSet :
                      (k # s \/ b # a) => after[k][b] = before[k][b]
    ]_vars

C25_Witness ==
    /\ rl.op = "update"
    /\ ~rl.l.threw
    /\ rl.l.currentState # NoState
    /\ rl.l.Q.t = "object"
    /\ Cardinality(DOMAIN rl.l.Q.rows) = 2
    /\ rl.l.Q.rows[rl.l.currentState][rl.l.currentAction] \notin {0, 50, 150}

----------------------------------------------------------------------------
(* One episode's update applied over and over: the learner has started an episode, and
   updateQTable is then called again and again with the same wave result while the
   level manager's readings stay as they are. The store is followed only as far as
   whether anything was saved, and the episode's summed reward, which grows with every
   call and is read by no update, is not followed. *)

\* the level manager's readings
ConvergeEnvs ==
    { [credits |-> 0, chokepoints |-> 1, nodes |-> 5, fCount |-> 2, iCount |-> 0,
       successRate |-> 50],
      [credits |-> 1000, chokepoints |-> 1, nodes |-> 5, fCount |-> 0, iCount |-> 0,
       successRate |-> 50] }

ConvergeWaves == { [leaked |-> 1, blocked |-> 1], [leaked |-> 0, blocked |-> 1] }

InitConverge ==
    /\ RouteIdle
    /\ PhaseIdle
    /\ pf = <<>>
    /\ tc = <<>>
    /\ gen = <<>>
    /\ ck = <<>>
    /\ ai = <<>>
    /\ ws = <<>>
    /\ play = <<>>
    /\ agents = <<>>
    /\ bus = <<>>
    /\ store = [saved |-> FALSE]
    /\ \E env \in ConvergeEnvs, waveResult \in ConvergeWaves, row \in RandomRows,
          randomAction \in ActionSet :
         LET greedy == startEpisode(NewEconomicRL(NoBlob), env, FALSE, randomAction, row)
         IN rl = [l |-> startEpisode(greedy, env, TRUE, randomAction, row), op |-> "start",
                  env |-> env, waveResult |-> waveResult]

\* economicRL.updateQTable(waveResult), once more
UpdateAgain ==
    /\ \E saveRoll \in BOOLEAN :
         LET r == updateQTable(rl.l, NoBlob, rl.waveResult, rl.env, saveRoll)
         IN /\ rl' = [rl EXCEPT !.l = [r.l EXCEPT !.episodeReward = 0], !.op = "update"]
            /\ store' = [saved |-> store.saved \/ r.store # NoBlob]
    /\ UNCHANGED <<rtvars, phvars, pf, tc, gen, ck, ai, ws, play, agents, bus>>

NextConverge == UpdateAgain

SpecConverge == InitConverge /\ [][NextConverge]_vars

\* the update is applied again as long as it changes anything
SpecConvergeFair == SpecConverge /\ WF_vars(UpdateAgain)

----------------------------------------------------------------------------
(* Properties of the repeated update, checked under SpecConverge and SpecConvergeFair *)

\* the constant reward of the update
ConstantReward == calculateReward(rl.waveResult, rl.env)

\* r / (1 - gamma), in hundredths
FixedPoint == (100 * QScale * ConstantReward) \div (100 - GammaPercent)

\* Q(s, a) of the episode's state and action
EpisodeQ == rl.l.Q.rows[rl.l.currentState][rl.l.currentAction]

\* the distance below which alpha * (r + gamma * Q - Q) is less than the hundredth the
\* table is kept in
Resolution == (1000 * QScale) \div (AlphaPermille * (100 - GammaPercent))

NearFixedPoint ==
    /\ EpisodeQ - FixedPoint <= Resolution
    /\ FixedPoint - EpisodeQ <= Resolution

\* no other action of the episode's state is valued above r / (1 - gamma)
OthersBelowFixedPoint ==
    \A b \in ActionSet \ {rl.l.currentAction} :
        rl.l.Q.rows[rl.l.currentState][b] <= FixedPoint

\* C26: applying the Q-update again and again with a constant reward r to one state and
\* action brings Q(s, a) to r / (1 - gamma), within the resolution of the table, and keeps
\* it there.
C26_Converges == <>[]NearFixedPoint

\* C26 (amended): the same, provided no other action of the state is valued above
\* r / (1 - gamma).
C26_ConvergesWhenHighest == <>[](OthersBelowFixedPoint => NearFixedPoint)

C26_Witness ==
    /\ rl.op = "update"
    /\ OthersBelowFixedPoint
    /\ NearFixedPoint
    /\ FixedPoint > 100 * QScale
    /\ rl.l.currentAction # "BALANCED"

\* C27: the key of a state whose buckets are LOW, SPARSE, FW_HEAVY and ATTACKER_STRONG is
\* the string "LOW_SPARSE_FW_HEAVY_ATTACKER_STRONG".
C27_KeyJoinsBuckets ==
    (/\ rl.env.credits < 500
     /\ ~(rl.env.chokepoints * 10 > 2 * rl.env.nodes)
     /\ rl.env.fCount * 2 > rl.env.iCount * 3
     /\ ~(rl.env.successRate > 70))
        => rl.l.currentState = "LOW_SPARSE_FW_HEAVY_ATTACKER_STRONG"

C27_Witness ==
    /\ rl.op = "update"
    /\ rl.env.credits = 0
    /\ rl.env.fCount = 2
    /\ Len(rl.l.currentState) = 35

----------------------------------------------------------------------------
(* Procedural topology generation (TopologyGenerator). The generator's random numbers
   are the states of its linear congruential generator, kept to the low 16 bits of the
   code's 32: random() is seed / LcgModulus. Math.random() is modelled by a stream of
   the same shape started from an arbitrary value. *)

LcgModulus == 65536
LcgMultiplier == 26125
LcgIncrement == 62303

\* this.seed = (a * this.seed + c) % m
lcg(seed) == (LcgMultiplier * seed + LcgIncrement) % LcgModulus

\* random() < num / den, for the draw s
Below(s, num, den) == s * den < num * LcgModulus

\* the accumulator of a loop holds a generator state; testing it on entry to each round
\* has the accumulator evaluated round by round
Ready(acc) == acc.r \in 0..(LcgModulus - 1)

\* Math.floor(random() * n), for the draw s
FloorTimes(s, n) == (s * n) \div LcgModulus

\* number of random paths identifyChokepoints samples
PathSamples == 3

\* adj[u].push(v) alone
adjacency_OneWay(es, n) ==
    [u \in 0..(n - 1) |->
        LET mine == SelectSeq(es, LAMBDA e : e[1] = u)
        IN [k \in 1..Len(mine) |-> mine[k][2]]]

\* adj[u].push(v); adj[v].push(u) for every edge: the neighbours of each of the n nodes
\* in the order of the edges
adjacency(es, n) ==
    [u \in 0..(n - 1) |->
        LET mine == SelectSeq(es, LAMBDA e : e[1] = u \/ e[2] = u)
        IN [k \in 1..Len(mine) |-> IF mine[k][1] = u THEN mine[k][2] ELSE mine[k][1]]]

Reversed(s) == [i \in 1..Len(s) |-> s[Len(s) + 1 - i]]

Rotated(s, k) == [i \in 1..Len(s) |-> s[((i - 1 + k) % Len(s)) + 1]]

\* neighbors.sort(() => Math.random() - 0.5): an order of the neighbours that the
\* draw s decides
Shuffled(s, d) ==
    LET t == Rotated(s, FloorTimes(d, Len(s)))
    IN IF (d \div 256) % 2 = 1 THEN Reversed(t) ELSE t

\* the Map prev of simpleBFS is the set of its entries <<node, predecessor>>
HasPrev(prev, n) == \E e \in prev : e[1] = n

PrevOf(prev, n) == (CHOOSE e \in prev : e[1] = n)[2]

\* for (const neighbor of neighbors) { if (!visited.has(neighbor)) ... }
RECURSIVE visitNeighbors(_, _, _, _)
visitNeighbors(b, curr, nbrs, i) ==
    IF i > Len(nbrs) \/ b.halt THEN b
    ELSE visitNeighbors(
           IF nbrs[i] \in b.visited THEN b
           ELSE [b EXCEPT !.visited = @ \cup {nbrs[i]},
                          !.prev = @ \cup {<<nbrs[i], curr>>},
                          !.queue = Append(@, nbrs[i])],
           curr, nbrs, i + 1)

\* one round of the while loop of simpleBFS; b.r is the state of Math.random() and
\* b.halt says that the loop has ended
bfsRound(adj, goal, b) ==
    IF b.halt THEN b
    ELSE IF b.queue = <<>> THEN [b EXCEPT !.halt = TRUE]
    ELSE LET curr == Head(b.queue)
             b1 == [b EXCEPT !.queue = Tail(@)]
             draws == Len(adj[curr]) > 1
             d == lcg(b.r)
             nbrs == IF draws THEN Shuffled(adj[curr], d) ELSE adj[curr]
             b2 == IF draws THEN [b1 EXCEPT !.r = d] ELSE b1
         IN IF curr = goal THEN [b1 EXCEPT !.halt = TRUE]
            ELSE visitNeighbors(b2, curr, nbrs, 1)

\* the while loop of simpleBFS, for at most k more rounds; the test of b.halt has each
\* round evaluated before the next begins
RECURSIVE bfsLoop(_, _, _, _)
bfsLoop(adj, goal, b, k) ==
    IF b.halt \/ k = 0 THEN b
    ELSE bfsLoop(adj, goal, bfsRound(adj, goal, b), k - 1)

\* path.unshift(curr); curr = prev.get(curr)
RECURSIVE unwind(_, _)
unwind(prev, curr) ==
    IF HasPrev(prev, curr) THEN Append(unwind(prev, PrevOf(prev, curr)), curr)
    ELSE <<curr>>

\* simpleBFS(adj, start, goal, true): the path (<<>> for null) and the state of
\* Math.random() afterwards
simpleBFS(adj, start, goal, r) ==
    LET b == bfsLoop(adj, goal, [queue |-> <<start>>, prev |-> {}, visited |-> {start},
                                 r |-> r, halt |-> FALSE],
                     Cardinality(DOMAIN adj) + 1)
    IN [path |-> IF HasPrev(b.prev, goal) THEN unwind(b.prev, goal) ELSE <<>>,
        r |-> b.r]

\* path.forEach(nodeId => { if (nodeId !== source && nodeId !== goal) nodeScore[nodeId]++ })
RECURSIVE scored(_, _, _, _, _)
scored(nodeScore, path, k, source, goal) ==
    IF k > Len(path) \/ DOMAIN nodeScore = {} THEN nodeScore
    ELSE scored(IF path[k] # source /\ path[k] # goal
                THEN (path[k] :> nodeScore[path[k]] + 1) @@ nodeScore
                ELSE nodeScore,
                path, k + 1, source, goal)

\* the sampling loop of identifyChokepoints, for one source and one goal as every
\* caller passes
RECURSIVE samplePaths(_, _, _, _, _)
samplePaths(adj, source, goal, i, acc) ==
    IF i >= PathSamples \/ ~Ready(acc) THEN acc
    ELSE LET found == simpleBFS(adj, source, goal, acc.r)
         IN samplePaths(adj, source, goal, i + 1,
              [nodeScore |-> scored(acc.nodeScore, found.path, 1, source, goal),
               r |-> found.r])

\* Math.max(...nodeScore)
MaxScore(nodeScore, n) ==
    LET scores == {nodeScore[i] : i \in 0..(n - 1)}
    IN CHOOSE m \in scores : \A v \in scores : v <= m

\* the ids of S in increasing order
pushed(S) ==
    [k \in 1..Cardinality(S) |-> CHOOSE i \in S : Cardinality({j \in S : j < i}) = k - 1]

\* identifyChokepoints(nodes, edges, [source], [goal]) over n nodes: the chokepoint ids,
\* the counters they were chosen from and the state of Math.random() afterwards
identifyChokepoints(n, es, source, goal, r) ==
    LET adj == adjacency(es, n)
        s == samplePaths(adj, source, goal, 0, [nodeScore |-> [i \in 0..(n - 1) |-> 0],
                                                 r |-> r])
        maxScore == MaxScore(s.nodeScore, n)
    IN [chokepoints |-> IF maxScore = 0 THEN <<>>
                        ELSE pushed({i \in 0..(n - 1) :
                                       /\ s.nodeScore[i] * 10 > 4 * maxScore
                                       /\ Len(adj[i]) >= 3}),
        nodeScore |-> s.nodeScore,
        r |-> s.r]

\* const goalId = 99 (temporary id of the goal in generateStackelbergMap)
GoalTempId == 99

\* the layer nodes of generateStackelbergMap in creation order, for numLayers layers:
\* node q lies on layer ((q - 1) % numLayers) + 1; x and y each take a draw, and the
\* kind hint takes one unless the layer is 2 (l === 2 || random() < 0.3)
RECURSIVE meshNodes(_, _, _, _)
meshNodes(count, numLayers, q, acc) ==
    IF q > count \/ ~Ready(acc) THEN acc
    ELSE LET layer == ((q - 1) % numLayers) + 1
             afterXY == lcg(lcg(acc.r))
             d == lcg(afterXY)
         IN meshNodes(count, numLayers, q + 1,
              IF layer = 2
              THEN [r |-> afterXY, types |-> Append(acc.types, "chokepoint")]
              ELSE [r |-> d,
                    types |-> Append(acc.types,
                                     IF Below(d, 3, 10) THEN "chokepoint" ELSE "normal")])

\* nodeGrid[p][l]
nodeGrid(numLayers, p, l) == 1 + p * numLayers + l

\* cross connections of layer l between adjacent paths: random() < crossProb, where
\* crossProb = 0.5 + c / LcgModulus * 0.3
RECURSIVE crossRow(_, _, _, _, _, _)
crossRow(numPaths, numLayers, l, c, p, acc) ==
    IF p >= numPaths - 1 \/ ~Ready(acc) THEN acc
    ELSE LET d == lcg(acc.r)
         IN crossRow(numPaths, numLayers, l, c, p + 1,
              [r |-> d,
               es |-> IF 10 * d < 5 * LcgModulus + 3 * c
                      THEN Append(acc.es, <<nodeGrid(numLayers, p, l),
                                            nodeGrid(numLayers, p + 1, l)>>)
                      ELSE acc.es])

\* the occasional long jump of layer l
longJump(numPaths, numLayers, l, acc) ==
    IF numPaths >= 3 /\ l = numLayers \div 2
    THEN LET d == lcg(acc.r)
             d2 == lcg(d)
             skip == FloorTimes(d2, numPaths - 2) + 1
         IN IF Below(d, 2, 10)
            THEN [r |-> d2, es |-> Append(acc.es, <<nodeGrid(numLayers, 0, l),
                                                    nodeGrid(numLayers, skip + 1, l)>>)]
            ELSE [acc EXCEPT !.r = d]
    ELSE acc

RECURSIVE meshEdges(_, _, _, _, _)
meshEdges(numPaths, numLayers, c, l, acc) ==
    IF l >= numLayers \/ ~Ready(acc) THEN acc
    ELSE meshEdges(numPaths, numLayers, c, l + 1,
                   longJump(numPaths, numLayers, l,
                            crossRow(numPaths, numLayers, l, c, 0, acc)))

lastToGoal_Missing(numPaths, numLayers) == <<>>

\* edges: Last Layer -> Goal
lastToGoal(numPaths, numLayers) ==
    [p \in 1..numPaths |-> <<nodeGrid(numLayers, p - 1, numLayers - 1), GoalTempId>>]

\* idMap[e[0]], idMap[e[1]]: a node's id becomes its index among the n nodes
idMap(id, n) == IF id = GoalTempId THEN n - 1 ELSE id

\* the kinds after identifyChokepoints in generateStackelbergMap: identified nodes
\* become 'chokepoint', and hinted ones that were not identified 'normal'
stackelbergTypes(types, chokepoints) ==
    [i \in 1..Len(types) |->
        IF SeqHas(chokepoints, i - 1) THEN "chokepoint"
        ELSE IF types[i] = "chokepoint" THEN "normal" ELSE types[i]]

\* the kinds after identifyChokepoints in generateRLTopology: identified nodes become
\* 'chokepoint'
rlTypes(types, chokepoints) ==
    [i \in 1..Len(types) |-> IF SeqHas(chokepoints, i - 1) THEN "chokepoint" ELSE types[i]]

\* generateStackelbergMap() with the seed the clock gave and Math.random() in state r
\* (seeding takes one draw of Math.random()):
\* the graph, and the state of Math.random() afterwards
generateStackelbergMap(seed, r) ==
    LET d1 == lcg(seed)
        numPaths == 2 + FloorTimes(d1, 3)
        d2 == lcg(d1)
        numLayers == 2 + FloorTimes(d2, 3)
        made == meshNodes(numPaths * numLayers, numLayers, 1, [r |-> d2, types |-> <<>>])
        types == <<"source">> \o made.types \o <<"goal">>
        n == Len(types)
        fromSource == [p \in 1..numPaths |-> <<0, nodeGrid(numLayers, p - 1, 0)>>]
        horizontal == [k \in 1..(numPaths * (numLayers - 1)) |->
                         LET p == (k - 1) \div (numLayers - 1)
                             l == (k - 1) % (numLayers - 1)
                         IN <<nodeGrid(numLayers, p, l), nodeGrid(numLayers, p, l + 1)>>]
        toGoal == lastToGoal(numPaths, numLayers)
        c == lcg(made.r)
        mesh == meshEdges(numPaths, numLayers, c, 0,
                          [r |-> c, es |-> fromSource \o horizontal \o toGoal])
        finalEdges == [k \in 1..Len(mesh.es) |->
                         <<idMap(mesh.es[k][1], n), idMap(mesh.es[k][2], n)>>]
        found == identifyChokepoints(n, finalEdges, 0, n - 1, lcg(r))
        finalTypes == stackelbergTypes(types, found.chokepoints)
    IN [graph |-> [name |-> <<"Stackelberg Mesh", FloorTimes(lcg(mesh.r), 1000)>>,
                   nodes |-> [i \in 1..n |-> [id |-> i - 1, type |-> finalTypes[i]]],
                   edges |-> finalEdges,
                   sources |-> <<0>>,
                   goals |-> <<n - 1>>,
                   chokepoints |-> found.chokepoints],
        seed |-> lcg(mesh.r),
        r |-> found.r]

TopoTypes == {"DIRECT", "EVASIVE", "SPREAD", "BALANCED"}

\* numLayers and nodesPerLayer of generateRLTopology
rlLayers(type) ==
    CASE type = "DIRECT" -> 3
      [] type = "EVASIVE" -> 5
      [] type = "SPREAD" -> 4
      [] OTHER -> 4

rlNodesPerLayer(type) == IF type = "EVASIVE" THEN 3 ELSE 2

\* count of layer i (1-based): one more on the even layers of EVASIVE
layerCount(type, i) ==
    rlNodesPerLayer(type) + (IF type = "EVASIVE" /\ i % 2 = 0 THEN 1 ELSE 0)

\* id of the first node of layer i
RECURSIVE layerStart(_, _)
layerStart(type, i) ==
    IF i = 1 THEN 1 ELSE layerStart(type, i - 1) + layerCount(type, i - 1)

\* layerIndices[i - 1]
layerIndices(type, i) == [j \in 1..layerCount(type, i) |-> layerStart(type, i) + j - 1]

\* the nodes of layer i from position j on: y, x and the kind hint each take a draw
RECURSIVE rlLayerNodes(_, _, _, _)
rlLayerNodes(type, i, j, acc) ==
    IF j >= layerCount(type, i) \/ ~Ready(acc) THEN acc
    ELSE LET d == lcg(lcg(lcg(acc.r)))
         IN rlLayerNodes(type, i, j + 1,
              [r |-> d,
               types |-> Append(acc.types,
                                IF Below(d, 3, 10) \/ (type = "BALANCED" /\ j = 0)
                                THEN "chokepoint" ELSE "normal")])

RECURSIVE rlNodes(_, _, _)
rlNodes(type, i, acc) ==
    IF i > rlLayers(type) \/ ~Ready(acc) THEN acc
    ELSE rlNodes(type, i + 1, rlLayerNodes(type, i, 0, acc))

\* current.forEach(u => next.forEach(v => edges.push([u, v])))
allPairs(current, next) ==
    [k \in 1..(Len(current) * Len(next)) |->
        <<current[((k - 1) \div Len(next)) + 1], next[((k - 1) % Len(next)) + 1]>>]

\* current.forEach(u => { one random target, and half of the time a second one })
RECURSIVE linkForward(_, _, _, _)
linkForward(current, next, k, acc) ==
    IF k > Len(current) \/ ~Ready(acc) THEN acc
    ELSE LET u == current[k]
             d1 == lcg(acc.r)
             target == next[FloorTimes(d1, Len(next)) + 1]
             d2 == lcg(d1)
             d3 == lcg(d2)
             target2 == next[FloorTimes(d3, Len(next)) + 1]
             es1 == Append(acc.es, <<u, target>>)
         IN linkForward(current, next, k + 1,
              IF Below(d2, 5, 10)
              THEN [r |-> d3, es |-> IF target # target2 THEN Append(es1, <<u, target2>>)
                                     ELSE es1]
              ELSE [r |-> d2, es |-> es1])

\* next.forEach(v => { if no edge ends in v, one from a random node of current })
RECURSIVE ensureInput(_, _, _, _)
ensureInput(current, next, k, acc) ==
    IF k > Len(next) \/ ~Ready(acc) THEN acc
    ELSE LET v == next[k]
             hasInput == \E e \in 1..Len(acc.es) : acc.es[e][2] = v
             d == lcg(acc.r)
         IN ensureInput(current, next, k + 1,
              IF hasInput THEN acc
              ELSE [r |-> d,
                    es |-> Append(acc.es, <<current[FloorTimes(d, Len(current)) + 1], v>>)])

\* Edges: Layer -> Layer
RECURSIVE linkLayers(_, _, _)
linkLayers(type, i, acc) ==
    IF i >= rlLayers(type) \/ ~Ready(acc) THEN acc
    ELSE LET current == layerIndices(type, i)
             next == layerIndices(type, i + 1)
         IN linkLayers(type, i + 1,
              IF type = "DIRECT" THEN [acc EXCEPT !.es = @ \o allPairs(current, next)]
              ELSE ensureInput(current, next, 1, linkForward(current, next, 1, acc)))

\* cross connections inside one layer
RECURSIVE crossLayer(_, _, _)
crossLayer(layer, k, acc) ==
    IF k >= Len(layer) \/ ~Ready(acc) THEN acc
    ELSE LET d == lcg(acc.r)
         IN crossLayer(layer, k + 1,
              [r |-> d,
               es |-> IF Below(d, 3, 10) THEN Append(acc.es, <<layer[k], layer[k + 1]>>)
                      ELSE acc.es])

RECURSIVE crossConnections(_, _, _)
crossConnections(type, i, acc) ==
    IF i > rlLayers(type) \/ ~Ready(acc) THEN acc
    ELSE crossConnections(type, i + 1, crossLayer(layerIndices(type, i), 1, acc))

\* generateRLTopology(type, currentAction, strategy) with Math.random() in state r
generateRLTopology(type, currentAction, r) ==
    LET made == rlNodes(type, 1, [r |-> r, types |-> <<>>])
        types == <<"source">> \o made.types \o <<"goal">>
        n == Len(types)
        goalIndex == n - 1
        first == layerIndices(type, 1)
        fromSource == [k \in 1..Len(first) |-> <<0, first[k]>>]
        linked == linkLayers(type, 1, [r |-> made.r, es |-> fromSource])
        last == layerIndices(type, rlLayers(type))
        toGoal == [k \in 1..Len(last) |-> <<last[k], goalIndex>>]
        withGoal == [linked EXCEPT !.es = @ \o toGoal]
        crossed == IF type # "DIRECT" /\ type # "SPREAD"
                   THEN crossConnections(type, 1, withGoal) ELSE withGoal
        found == identifyChokepoints(n, crossed.es, 0, goalIndex, crossed.r)
        finalTypes == rlTypes(types, found.chokepoints)
    IN [graph |-> [name |-> <<"Smart", type, currentAction>>,
                   nodes |-> [i \in 1..n |-> [id |-> i - 1, type |-> finalTypes[i]]],
                   edges |-> crossed.es,
                   sources |-> <<0>>,
                   goals |-> <<goalIndex>>,
                   chokepoints |-> found.chokepoints],
        r |-> found.r]

\* towers the player has, by type
TowerMixes == { [Firewall |-> 0, IDS |-> 0, Honeypot |-> 0, other |-> 0],
                [Firewall |-> 2, IDS |-> 1, Honeypot |-> 0, other |-> 0],
                [Firewall |-> 1, IDS |-> 1, Honeypot |-> 0, other |-> 0],
                [Firewall |-> 0, IDS |-> 0, Honeypot |-> 1, other |-> 1] }

\* step 1 of generateDynamicTopology: the player's strategy
playerStrategy(towers) ==
    LET total == towers.Firewall + towers.IDS + towers.Honeypot + towers.other
    IN IF total = 0 THEN "BALANCED"
       ELSE IF towers.Firewall * 10 > 5 * total THEN "FIREWALL_HEAVY"
       ELSE IF towers.IDS * 10 > 4 * total THEN "IDS_FOCUSED"
       ELSE IF towers.Honeypot * 10 > 3 * total THEN "HONEYPOT_TRAP"
       ELSE "BALANCED"

\* step 2 of generateDynamicTopology: the topology type
topoType(currentAction, strategy) ==
    IF currentAction = "AGGRESSIVE" THEN "DIRECT"
    ELSE IF currentAction = "DEFENSIVE"
         THEN IF strategy = "FIREWALL_HEAVY" THEN "SPREAD" ELSE "EVASIVE"
         ELSE "BALANCED"

\* EconomicRL.generateDynamicTopology(towers)
generateDynamicTopology(currentAction, towers, r) ==
    generateRLTopology(topoType(currentAction, playerStrategy(towers)), currentAction, r)

----------------------------------------------------------------------------
(* Generation runs: gen holds the generator's seed, the state r of Math.random(), and
   the graph the last call returned. *)

NumSeeds == 6

Seeds == {(i * 5003 + 17) % LcgModulus : i \in 0..(NumSeeds - 1)}

MathSeeds == {(i * 9973 + 4001) % LcgModulus : i \in 0..(NumSeeds - 1)}

NoGraph == [name |-> <<>>, nodes |-> <<>>, edges |-> <<>>, sources |-> <<>>,
            goals |-> <<>>, chokepoints |-> <<>>]

InitGen ==
    /\ RouteIdle
    /\ PhaseIdle
    /\ pf = <<>>
    /\ tc = <<>>
    /\ rl = <<>>
    /\ store = <<>>
    /\ ck = <<>>
    /\ ai = <<>>
    /\ ws = <<>>
    /\ play = <<>>
    /\ agents = <<>>
    /\ bus = <<>>
    /\ \E seed \in Seeds, r \in MathSeeds :
         gen = [seed |-> seed, r |-> r, op |-> "none", graph |-> NoGraph]

\* TopologyGenerator.generateStackelbergMap()
GenerateStackelberg ==
    /\ gen.op = "none"
    /\ LET g == generateStackelbergMap(gen.seed, gen.r)
       IN /\ Ready(g)
          /\ gen' = [seed |-> g.seed, r |-> g.r, op |-> "stackelberg", graph |-> g.graph]
    /\ UNCHANGED <<rtvars, phvars, pf, tc, rl, store, ck, ai, ws, play, agents, bus>>

\* economicRL.generateDynamicTopology(towers)
GenerateRL ==
    /\ gen.op = "none"
    /\ \E currentAction \in ActionSet \cup {NoAction}, towers \in TowerMixes :
         LET g == generateDynamicTopology(currentAction, towers, gen.r)
         IN /\ Ready(g)
            /\ gen' = [seed |-> gen.seed, r |-> g.r, op |-> "rl", graph |-> g.graph]
    /\ UNCHANGED <<rtvars, phvars, pf, tc, rl, store, ck, ai, ws, play, agents, bus>>

NextGen == GenerateStackelberg \/ GenerateRL

SpecGen == InitGen /\ [][NextGen]_vars

----------------------------------------------------------------------------
(* Construction of the Level-3 controller: new LevelManagerStackelberg(levelConfig)
   generates a map, merges it into the configuration and hands the result to the
   LevelManager constructor. tc holds the merged configuration and the graph fields
   loadTopology assigns; the paths calculatePaths derives from them are not followed. *)

\* Config.TOPOLOGIES.stackelberg_mesh
StackelbergMesh ==
    [name |-> <<"Stackelberg Mesh">>,
     nodeCount |-> 11,
     edges |-> << <<0, 1>>, <<1, 2>>, <<2, 3>>, <<3, 10>>, <<0, 4>>, <<4, 5>>, <<5, 6>>,
                  <<6, 10>>, <<0, 7>>, <<7, 8>>, <<8, 9>>, <<9, 10>>, <<1, 5>>, <<4, 2>>,
                  <<4, 8>>, <<7, 5>>, <<2, 6>>, <<5, 3>>, <<5, 9>>, <<8, 6>> >>,
     sources |-> <<0>>,
     goals |-> <<10>>,
     chokepoints |-> <<1, 3, 5, 7, 9>>]

\* Config.LEVELS[3], as far as the constructors read it
StackelbergLevel == [topology |-> "stackelberg_mesh"]

\* the controller before its constructor has run
NoController ==
    [constructed |-> FALSE, level |-> <<>>, nodeCount |-> 0, edges |-> Undefined,
     sources |-> Undefined, goals |-> Undefined, chokepoints |-> Undefined]

\* finalConfig = { ...levelConfig, ...dynamicMap }; super(finalConfig): this.level is the
\* merged configuration, and loadTopology installs Config.TOPOLOGIES[this.level.topology]
NewStackelberg(levelConfig, dynamicMap) ==
    LET finalConfig == [topology |-> levelConfig.topology, name |-> dynamicMap.name,
                        nodes |-> dynamicMap.nodes, edges |-> dynamicMap.edges,
                        sources |-> dynamicMap.sources, goals |-> dynamicMap.goals,
                        chokepoints |-> dynamicMap.chokepoints]
        topology == StackelbergMesh
    IN [constructed |-> TRUE, level |-> finalConfig, nodeCount |-> topology.nodeCount,
        edges |-> topology.edges, sources |-> topology.sources, goals |-> topology.goals,
        chokepoints |-> topology.chokepoints]

InitMesh ==
    /\ RouteIdle
    /\ PhaseIdle
    /\ pf = <<>>
    /\ rl = <<>>
    /\ store = <<>>
    /\ ck = <<>>
    /\ ai = <<>>
    /\ ws = <<>>
    /\ play = <<>>
    /\ agents = <<>>
    /\ bus = <<>>
    /\ tc = NoController
    /\ \E seed \in Seeds, r \in MathSeeds :
         gen = [seed |-> seed, r |-> r, op |-> "none", graph |-> NoGraph]

\* the constructor's first statement: TopologyGenerator.generateStackelbergMap()
GenerateMap ==
    /\ gen.op = "none"
    /\ LET g == generateStackelbergMap(gen.seed, gen.r)
       IN /\ Ready(g)
          /\ gen' = [seed |-> g.seed, r |-> g.r, op |-> "stackelberg", graph |-> g.graph]
    /\ UNCHANGED <<rtvars, phvars, pf, tc, rl, store, ck, ai, ws, play, agents, bus>>

\* the rest of the constructor: the merge and super(finalConfig, difficulty)
ConstructStackelberg ==
    /\ gen.op = "stackelberg"
    /\ ~tc.constructed
    /\ tc' = NewStackelberg(StackelbergLevel, gen.graph)
    /\ UNCHANGED <<rtvars, phvars, pf, gen, rl, store, ck, ai, ws, play, agents, bus>>

NextMesh == GenerateMap \/ ConstructStackelberg

SpecMesh == InitMesh /\ [][NextMesh]_vars

----------------------------------------------------------------------------
(* Properties of the Level-3 controller's construction, checked under SpecMesh *)

\* C33: the graph installed in a Level-3 session (the controller's nodes, edges, sources,
\* goals and chokepoints) is the graph generateStackelbergMap produced for that session.
C33_InstalledIsGenerated ==
    tc.constructed =>
        /\ tc.nodeCount = Len(gen.graph.nodes)
        /\ tc.edges = gen.graph.edges
        /\ tc.sources = gen.graph.sources
        /\ tc.goals = gen.graph.goals
        /\ tc.chokepoints = gen.graph.chokepoints

----------------------------------------------------------------------------
(* Properties of the generated graphs, checked under SpecGen *)

\* a generator has returned a graph
Generated == gen.op # "none"

NodeIds(g) == 0..(Len(g.nodes) - 1)

Members(s) == {s[i] : i \in 1..Len(s)}

RECURSIVE ReachIn(_, _, _, _)
\* the nodes of ids joined to a node of R by at most n edges of es
ReachIn(es, ids, R, n) ==
    LET more == R \cup {b \in ids : \E i \in 1..Len(es) :
                           \/ es[i][1] \in R /\ es[i][2] = b
                           \/ es[i][2] \in R /\ es[i][1] = b}
    IN IF n = 0 \/ more = R THEN R ELSE ReachIn(es, ids, more, n - 1)

\* C19: every graph a generator returns is well formed: both endpoints of every edge,
\* and every source, goal and chokepoint id, are indices of nodes of the graph, and from
\* every source some goal can be reached along edges.
C19_GeneratedWellFormed ==
    Generated =>
        LET g == gen.graph
        IN /\ \A k \in 1..Len(g.edges) : g.edges[k][1] \in NodeIds(g) /\ g.edges[k][2] \in NodeIds(g)
           /\ Members(g.sources) \cup Members(g.goals) \cup Members(g.chokepoints) \subseteq NodeIds(g)
           /\ \A s \in Members(g.sources) : \E t \in Members(g.goals) :
                   t \in ReachIn(g.edges, NodeIds(g), {s}, Len(g.nodes))

C19_Witness ==
    /\ gen.op = "rl"
    /\ gen.graph.chokepoints # <<>>
    /\ Len(gen.graph.edges) > Len(gen.graph.nodes)

\* C20: in every graph a generator returns, a node's kind is 'chokepoint' exactly when
\* its id is in the graph's chokepoint set, 'source' exactly when it is in the source set
\* and 'goal' exactly when it is in the goal set.
C20_KindsAgreeWithSets ==
    Generated =>
        LET g == gen.graph
        IN \A i \in 1..Len(g.nodes) :
             /\ g.nodes[i].type = "chokepoint" <=> (i - 1) \in Members(g.chokepoints)
             /\ g.nodes[i].type = "source" <=> (i - 1) \in Members(g.sources)
             /\ g.nodes[i].type = "goal" <=> (i - 1) \in Members(g.goals)

----------------------------------------------------------------------------
(* The chokepoint classifier called directly: identifyChokepoints on a given graph,
   several times over, with TopologyGenerator.seed as it stands *)

\* number of classifier runs on one graph
MaxRuns == 2

ClassifyCandidates ==
    << <<0, 1>>, <<0, 2>>, <<1, 3>>, <<2, 3>>, <<2, 4>>, <<3, 5>>, <<4, 5>>, <<0, 5>> >>

\* number of nodes of the graphs classified: the nodes the candidate edges join
ClassifyNodes == Cardinality(UNION {{e[1], e[2]} : e \in Members(ClassifyCandidates)})

\* the candidate edges whose index is in S, in list order
ClassifyEdges(S) ==
    SelectSeq([k \in 1..Len(ClassifyCandidates) |-> IF k \in S THEN ClassifyCandidates[k] ELSE <<>>],
              LAMBDA e : e # <<>>)

ClassifyGraphs == {ClassifyEdges(S) : S \in SUBSET (1..Len(ClassifyCandidates))}

InitClassify ==
    /\ RouteIdle
    /\ PhaseIdle
    /\ pf = <<>>
    /\ tc = <<>>
    /\ rl = <<>>
    /\ store = <<>>
    /\ gen = <<>>
    /\ ai = <<>>
    /\ ws = <<>>
    /\ play = <<>>
    /\ agents = <<>>
    /\ bus = <<>>
    /\ \E es \in ClassifyGraphs, seed \in Seeds, r \in MathSeeds :
         ck = [n |-> ClassifyNodes, edges |-> es, source |-> 0, goal |-> ClassifyNodes - 1,
               seed |-> seed, r |-> r, runs |-> <<>>]

\* TopologyGenerator.identifyChokepoints(nodes, edges, [source], [goal])
Classify ==
    /\ Len(ck.runs) < MaxRuns
    /\ LET c == identifyChokepoints(ck.n, ck.edges, ck.source, ck.goal, ck.r)
       IN /\ Ready(c)
          /\ ck' = [ck EXCEPT !.r = c.r,
                              !.runs = Append(@, [seed |-> ck.seed, samples |-> PathSamples,
                                                  chokepoints |-> c.chokepoints,
                                                  nodeScore |-> c.nodeScore])]
    /\ UNCHANGED <<rtvars, phvars, pf, tc, rl, store, gen, ai, ws, play, agents, bus>>

NextClassify == Classify

SpecClassify == InitClassify /\ [][NextClassify]_vars

----------------------------------------------------------------------------
(* Properties of the classifier, checked under SpecClassify *)

\* C21: two runs of the classifier on the same graph, sources and goals, with the same
\* seed and the same sample count, return the same chokepoint set.
C21_ClassifierDeterministic ==
    \A i, j \in 1..Len(ck.runs) :
        (ck.runs[i].seed = ck.runs[j].seed /\ ck.runs[i].samples = ck.runs[j].samples)
            => ck.runs[i].chokepoints = ck.runs[j].chokepoints

\* number of edges of es that end in node i
Degree(es, i) == Cardinality({k \in 1..Len(es) : es[k][1] = i \/ es[k][2] = i})

\* largest counter of a run
MaxCounter(run) ==
    CHOOSE m \in {run.nodeScore[i] : i \in DOMAIN run.nodeScore} :
        \A i \in DOMAIN run.nodeScore : run.nodeScore[i] <= m

\* C22: the classifier returns exactly the nodes whose counter divided by the largest
\* counter exceeds 0.4 and whose degree is at least 3, each once, and returns nothing when
\* the largest counter is 0.
C22_ExactlyBusyJunctions ==
    \A k \in 1..Len(ck.runs) :
        LET run == ck.runs[k]
            top == MaxCounter(run)
        IN /\ Members(run.chokepoints) =
                 {i \in 0..(ck.n - 1) : /\ top > 0
                                        /\ 10 * run.nodeScore[i] > 4 * top
                                        /\ Degree(ck.edges, i) >= 3}
           /\ Cardinality(Members(run.chokepoints)) = Len(run.chokepoints)

C22_Witness ==
    /\ ck.runs # <<>>
    /\ ck.runs[1].chokepoints # <<>>
    /\ \E i \in 0..(ck.n - 1) : /\ Degree(ck.edges, i) >= 3
                                /\ ck.runs[1].nodeScore[i] > 0
                                /\ i \notin Members(ck.runs[1].chokepoints)

----------------------------------------------------------------------------
(* PerfectAI (Level 3): coverage, path weakness and the optimal attack. Damage per
   second is an integer (Firewall 18 per 750 ms = 24, IDS 4 per 500 ms = 8, Honeypot 1
   per 200 ms = 5); payoffs are in tenths; quotients are exact fractions num / den in
   lowest terms, from which the program's doubles differ by the rounding of four
   operations. *)

RECURSIVE Gcd(_, _)
Gcd(a, b) == IF b = 0 THEN a ELSE Gcd(b, a % b)

\* the fraction n / d, for n >= 0 and d > 0
Ratio(n, d) == [num |-> n \div Gcd(n, d), den |-> d \div Gcd(n, d)]

RTimes(x, y) == Ratio(x.num * y.num, x.den * y.den)

RPlus(x, y) == Ratio(x.num * y.den + y.num * x.den, x.den * y.den)

\* x / y, for y > 0
ROver(x, y) == Ratio(x.num * y.den, x.den * y.num)

RLess(x, y) == x.num * y.den < y.num * x.den

\* payoffMatrix, in tenths
payoffMatrix ==
    [BASIC |-> [FW_HEAVY |-> 2, IDS_HEAVY |-> 7, BALANCED |-> 4],
     FAST |-> [FW_HEAVY |-> 1, IDS_HEAVY |-> 8, BALANCED |-> 5],
     TANK |-> [FW_HEAVY |-> 6, IDS_HEAVY |-> 3, BALANCED |-> 4],
     STEALTH |-> [FW_HEAVY |-> 9, IDS_HEAVY |-> 2, BALANCED |-> 4],
     ENCRYPTED |-> [FW_HEAVY |-> 8, IDS_HEAVY |-> 4, BALANCED |-> 5],
     ADAPTIVE |-> [FW_HEAVY |-> 7, IDS_HEAVY |-> 6, BALANCED |-> 8],
     LEGITIMATE |-> [FW_HEAVY |-> 10, IDS_HEAVY |-> 10, BALANCED |-> 10]]

\* Object.keys(payoffMatrix)
payoffRows == <<"BASIC", "FAST", "TANK", "STEALTH", "ENCRYPTED", "ADAPTIVE", "LEGITIMATE">>

\* Object.keys(payoffMatrix).filter(t => t !== 'LEGITIMATE')
candidates == SelectSeq(payoffRows, LAMBDA t : t # "LEGITIMATE")

\* tower.damage * (1 / (tower.cooldownMax / 1000))
TowerDps(type) ==
    CASE type = "Firewall" -> 24
      [] type = "IDS" -> 8
      [] OTHER -> 5

\* towers.filter(t => t.type === type).length
CountType(towers, type) == Len(SelectSeq(towers, LAMBDA t : t.type = type))

posture_Balanced(towers) == "BALANCED"

\* fCount > iCount * 1.5 ? 'FW_HEAVY' : (iCount > fCount ? 'IDS_HEAVY' : 'BALANCED')
posture(towers) ==
    LET fCount == CountType(towers, "Firewall")
        iCount == CountType(towers, "IDS")
    IN IF 2 * fCount > 3 * iCount THEN "FW_HEAVY"
       ELSE IF iCount > fCount THEN "IDS_HEAVY" ELSE "BALANCED"

\* totalDamage of path p (1-based): the damage per second of every tower at every node
\* of the path in its range; tower.reach[p] is the number of those nodes
RECURSIVE pathDamage(_, _, _)
pathDamage(towers, p, k) ==
    IF k > Len(towers) THEN 0
    ELSE TowerDps(towers[k].type) * towers[k].reach[p] + pathDamage(towers, p, k + 1)

\* findWeakestPaths: one entry per path, sorted by total damage (at most two paths)
findWeakestPaths(towers, numPaths) ==
    LET info(p) == [pathIndex |-> p - 1, totalDamage |-> pathDamage(towers, p, 1)]
    IN IF numPaths = 1 THEN <<info(1)>>
       ELSE IF info(2).totalDamage < info(1).totalDamage THEN <<info(2), info(1)>>
       ELSE <<info(1), info(2)>>

\* weights[type] = payoff * pathWeakness, where pathWeakness = 100 / (totalDamage + 1)
weightOf(type, posted, totalDamage) ==
    RTimes(Ratio(payoffMatrix[type][posted], 10), Ratio(100, totalDamage + 1))

RECURSIVE totalWeight_AllRows(_, _, _, _)
totalWeight_AllRows(types, posted, totalDamage, k) ==
    IF k > Len(payoffRows) THEN Ratio(0, 1)
    ELSE RPlus(weightOf(payoffRows[k], posted, totalDamage),
               totalWeight_AllRows(types, posted, totalDamage, k + 1))

\* totalWeight += weights[type], over the types from the k-th on
RECURSIVE totalWeight(_, _, _, _)
totalWeight(types, posted, totalDamage, k) ==
    IF k > Len(types) THEN Ratio(0, 1)
    ELSE RPlus(weightOf(types[k], posted, totalDamage),
               totalWeight(types, posted, totalDamage, k + 1))

\* strategy[pathId] for one analysed path; spawnRate is in hundredths
pathStrategy(pathInfo, posted) ==
    LET d == pathInfo.totalDamage
        total == totalWeight(candidates, posted, d, 1)
    IN [priority |-> IF d < 20 THEN 5 ELSE 2,
        enemyMix |-> [type \in {candidates[k] : k \in 1..Len(candidates)} |->
                         ROver(weightOf(type, posted, d), total)],
        spawnRate |-> IF 120 - 2 * d > 40 THEN Ratio(120 - 2 * d, 100) ELSE Ratio(40, 100)]

\* calculateOptimalAttack(coverage, pathAnalysis) with levelManager.committedTowers
calculateOptimalAttack(committedTowers, pathAnalysis) ==
    LET posted == posture(committedTowers)
    IN [strategy |-> [pathId \in {pathAnalysis[k].pathIndex : k \in 1..Len(pathAnalysis)} |->
                        pathStrategy(CHOOSE info \in {pathAnalysis[k] : k \in 1..Len(pathAnalysis)} :
                                         info.pathIndex = pathId,
                                     posted)],
        postureUsed |-> posted]

\* towers a player can commit
MaxTowers == 3

\* how many nodes of the first and of the second path a tower has in range
Reaches == {<<0, 0>>, <<1, 0>>, <<1, 2>>, <<2, 1>>}

TowerChoices == [type : {"Firewall", "IDS", "Honeypot"}, reach : Reaches]

TowerLists == UNION {[1..n -> TowerChoices] : n \in 0..MaxTowers}

NoStrategy == [strategy |-> <<>>, postureUsed |-> ""]

InitAI ==
    /\ RouteIdle
    /\ PhaseIdle
    /\ pf = <<>>
    /\ tc = <<>>
    /\ rl = <<>>
    /\ store = <<>>
    /\ gen = <<>>
    /\ ck = <<>>
    /\ ws = <<>>
    /\ play = <<>>
    /\ agents = <<>>
    /\ bus = <<>>
    /\ \E towers \in TowerLists, numPaths \in {1, 2} :
         ai = [committedTowers |-> towers, numPaths |-> numPaths, pathAnalysis |-> <<>>,
               attack |-> NoStrategy, analysed |-> FALSE]

\* perfectAI.analyzeAndGenerate(this.committedTowers)
AnalyzeAndGenerate ==
    /\ ~ai.analysed
    /\ LET pathAnalysis == findWeakestPaths(ai.committedTowers, ai.numPaths)
       IN ai' = [ai EXCEPT !.pathAnalysis = pathAnalysis,
                           !.attack = calculateOptimalAttack(ai.committedTowers, pathAnalysis),
                           !.analysed = TRUE]
    /\ UNCHANGED <<rtvars, phvars, pf, tc, rl, store, gen, ck, ws, play, agents, bus>>

NextAI == AnalyzeAndGenerate

SpecAI == InitAI /\ [][NextAI]_vars

----------------------------------------------------------------------------
(* Properties of the optimal attack, checked under SpecAI *)

\* the sum of the fractions f[t] over the types t of S
RECURSIVE SumOver(_, _)
SumOver(f, S) ==
    IF S = {} THEN Ratio(0, 1)
    ELSE LET t == CHOOSE t \in S : TRUE
         IN RPlus(f[t], SumOver(f, S \ {t}))

\* |x - 1| <= 1 / 1000000
NearOne(x) ==
    /\ 1000000 * x.num <= 1000001 * x.den
    /\ 1000000 * x.num >= 999999 * x.den

\* C23: for every path analysed, the probabilities of the path's enemy mix sum to 1
\* within 1e-6.
C23_MixSumsToOne ==
    ai.analysed =>
        \A pathId \in DOMAIN ai.attack.strategy :
            LET mix == ai.attack.strategy[pathId].enemyMix
            IN NearOne(SumOver(mix, DOMAIN mix))

C23_Witness ==
    /\ ai.analysed
    /\ Len(ai.pathAnalysis) = 2
    /\ ai.pathAnalysis[1].totalDamage > 0
    /\ ai.pathAnalysis[1].totalDamage < ai.pathAnalysis[2].totalDamage
    /\ ai.attack.postureUsed = "IDS_HEAVY"

\* the defender committed 3 Firewalls and no IDS, on a graph with a single path
ThreeBlockers ==
    /\ ai.analysed
    /\ CountType(ai.committedTowers, "Firewall") = 3
    /\ CountType(ai.committedTowers, "IDS") = 0
    /\ ai.numPaths = 1

\* C24: with 3 Firewalls and no IDS committed on a single-path graph of total damage D,
\* the posture is FW_HEAVY and the enemy mix gives each of its types the weight
\* payoff(type, FW_HEAVY) * (100 / (D + 1)) divided by the sum of that quantity over the
\* types of the mix, which are the six types other than LEGITIMATE.
C24_BlockerHeavyMix ==
    ThreeBlockers =>
        LET d == ai.pathAnalysis[1].totalDamage
            mix == ai.attack.strategy[0].enemyMix
            \* payoff * 100 / (d + 1), as a count of 1 / (10 * (d + 1))
            q(type) == payoffMatrix[type]["FW_HEAVY"] * 100
            sum == q("BASIC") + q("FAST") + q("TANK") + q("STEALTH") + q("ENCRYPTED")
                       + q("ADAPTIVE")
        IN /\ ai.attack.postureUsed = "FW_HEAVY"
           /\ DOMAIN mix = {"BASIC", "FAST", "TANK", "STEALTH", "ENCRYPTED", "ADAPTIVE"}
           /\ \A type \in DOMAIN mix : mix[type].num * sum = mix[type].den * q(type)

C24_Witness ==
    /\ ThreeBlockers
    /\ ai.pathAnalysis[1].totalDamage = 72


----------------------------------------------------------------------------
(* Endless sessions: Level 2 and Classic Endless under LevelManagerAdaptive with the
   GeniusAI, Level 4 under LevelManagerEconomic. ws follows the wave counters, the name
   and the nodes and chokepoints of the installed topology, the money and the towers of
   PlayingState; edges and paths are followed by the topology model above, the learner
   by the learner model, enemies and their rewards are not followed. *)

MaxWave == 7

\* Config.TOPOLOGIES[name].nodes: the position of node id is at index id + 1
CatalogNodes ==
    ("level1" :> << <<225, 350>>, <<375, 350>>, <<525, 250>>, <<525, 450>>, <<675, 350>>,
                    <<825, 350>>, <<975, 350>> >>)
    @@ ("adaptive1" :> << <<225, 350>>, <<375, 200>>, <<375, 500>>, <<525, 150>>,
                          <<525, 350>>, <<525, 550>>, <<675, 200>>, <<675, 500>>,
                          <<825, 350>>, <<975, 350>> >>)
    @@ ("adaptive2" :> << <<150, 350>>, <<350, 200>>, <<350, 350>>, <<350, 500>>,
                          <<600, 150>>, <<600, 350>>, <<600, 550>>, <<850, 250>>,
                          <<850, 450>>, <<1050, 350>> >>)
    @@ ("adaptive3" :> << <<150, 350>>, <<350, 350>>, <<500, 250>>, <<500, 450>>,
                          <<700, 150>>, <<700, 350>>, <<700, 550>>, <<900, 250>>,
                          <<900, 450>>, <<1050, 350>> >>)

\* Config.TOPOLOGIES[name].chokepoints
CatalogChokepoints ==
    ("level1" :> {2, 3, 5}) @@ ("adaptive1" :> {1, 2, 4, 6, 7, 8})
    @@ ("adaptive2" :> {1, 2, 3, 7, 8}) @@ ("adaptive3" :> {2, 3, 7, 8})

\* GeniusAI.topologyOptions
topologyOptions == <<"adaptive1", "adaptive2", "adaptive3">>

\* a level configuration without a `waves` entry (Config.ENDLESS_MODES.CLASSIC, Level 4)
NoWaves == 0

\* Config.LEVELS 2 and 4 and Config.ENDLESS_MODES.CLASSIC, as far as the managers read them
WaveLevels ==
    { [mode |-> "ENDLESS", waves |-> 2,
       aiType |-> "GENIUS", topology |-> "adaptive1", topologySwitchInterval |-> 2,
       maintenance |-> TRUE],
      [mode |-> "ENDLESS", waves |-> NoWaves,
       aiType |-> "GENIUS", topology |-> "adaptive1", topologySwitchInterval |-> 3,
       maintenance |-> FALSE],
      [mode |-> "ECONOMIC_ENDLESS", waves |-> NoWaves,
       aiType |-> "ECONOMIC_RL", topology |-> NoName, topologySwitchInterval |-> 2,
       maintenance |-> TRUE] }

\* Config.TOWERS[type].maintenance
TowerMaintenance(type) == IF type = "Firewall" THEN 10 ELSE 3

\* Tower.getSellValue(): Math.floor(cost * 0.7)
getSellValue(type) == (TowerCost(type) * 7) \div 10

\* the position of node nodeIndex of the installed topology
NodeAt(s, nodeIndex) == CatalogNodes[s.installed][nodeIndex + 1]

\* what the last handler did; completed is the wave whose completion it handled
NoEvent == [op |-> "enter", completed |-> 0, switched |-> FALSE, from |-> NoName, to |-> NoName]

\* new GeniusAI(levelManager), then geniusAI.currentTopology = this.level.topology
NewGenius(level) == [currentWave |-> 0, currentTopology |-> level.topology]

\* LevelManagerEconomic.rotateTopology() as startWave calls it, without towers: a variant
\* is drawn until it differs from this.level.topology, and installed
rotateVariant(s, pick) ==
    [s EXCEPT !.installed = topologyVariants[pick], !.topology = topologyVariants[pick],
              !.wavesSinceSwitch = 0,
              !.last.switched = TRUE, !.last.to = topologyVariants[pick]]

\* LevelManagerAdaptive.startWave / LevelManagerEconomic.startWave
startWave(s, pick) ==
    IF s.level.aiType = "GENIUS"
    THEN [s EXCEPT !.wave = IF @ = 0 THEN 1 ELSE @]
    ELSE LET s1 == [s EXCEPT !.wave = @ + 1, !.wavesSinceSwitch = @ + 1]
         IN IF s1.wavesSinceSwitch >= s.level.topologySwitchInterval
            THEN rotateVariant(s1, pick) ELSE s1

\* PlayingState.enter for an endless level: the manager is constructed (loadTopology
\* installs level.topology || 'level1'), the first wave is started, the fields are reset
enterEndless(level, pick) ==
    LET topoName == IF level.topology = NoName THEN "level1" ELSE level.topology
        s0 == [level |-> level, topology |-> level.topology, installed |-> topoName,
               wave |-> 0, wavesSinceSwitch |-> 0, money |-> StartingMoney,
               levelComplete |-> FALSE,
               genius |-> NewGenius(level), towers |-> <<>>, selectedTowerType |-> NoType,
               last |-> [NoEvent EXCEPT !.from = topoName, !.to = topoName]]
    IN startWave(s0, pick)

\* PlayingState.canPlaceTower in an endless session (towersLocked stays false)
canPlaceTowerAt(s, nodeIndex) ==
    /\ nodeIndex \in CatalogChokepoints[s.installed]
    /\ \A i \in 1..Len(s.towers) :
          ~(s.towers[i].x = NodeAt(s, nodeIndex)[1] /\ s.towers[i].y = NodeAt(s, nodeIndex)[2])
    /\ s.money >= TowerCost(s.selectedTowerType)

\* PlayingState.placeTower in an endless session
placeTowerAt(s, nodeIndex) ==
    IF ~canPlaceTowerAt(s, nodeIndex) THEN s
    ELSE [s EXCEPT !.towers = Append(@, [x |-> NodeAt(s, nodeIndex)[1],
                                         y |-> NodeAt(s, nodeIndex)[2],
                                         type |-> s.selectedTowerType]),
                   !.money = @ - TowerCost(s.selectedTowerType)]

\* the summed getSellValue() of the towers
RECURSIVE refundOf(_)
refundOf(towers) ==
    IF towers = <<>> THEN 0 ELSE getSellValue(Head(towers).type) + refundOf(Tail(towers))

\* the summed getMaintenanceCost() of the towers
RECURSIVE maintenanceOf(_)
maintenanceOf(towers) ==
    IF towers = <<>> THEN 0 ELSE TowerMaintenance(Head(towers).type) + maintenanceOf(Tail(towers))

\* PlayingState.handleTopologySwitch: every tower is refunded and removed
handleTopologySwitch(s) == [s EXCEPT !.money = @ + refundOf(s.towers), !.towers = <<>>]

\* LevelManagerAdaptive.switchTopology with a name of the catalog, and the topologySwitch
\* listener of PlayingState that its emit runs
switchAndNotify(s, newTopologyName) ==
    handleTopologySwitch([s EXCEPT !.installed = newTopologyName, !.topology = newTopologyName,
                                   !.wavesSinceSwitch = 0,
                                   !.last.switched = TRUE, !.last.to = newTopologyName])

\* GeniusAI.shouldSwitchTopology
shouldSwitchTopology(g) == g.currentWave > 0 /\ g.currentWave % 2 = 0

\* GeniusAI.selectNextTopology: pick is the index the loop ends with
selectNextTopology(g, pick) == [g EXCEPT !.currentTopology = topologyOptions[pick]]

\* GeniusAI.updateLearning; the history it keeps is not followed
updateLearning(g) == [g EXCEPT !.currentWave = @ + 1]

\* LevelManagerAdaptive.calculateMaintenance(towers)
calculateMaintenance(s, towers) ==
    LET totalMaintenance == maintenanceOf(towers)
    IN [s EXCEPT !.money = IF @ >= totalMaintenance THEN @ - totalMaintenance ELSE 0]

\* LevelManagerAdaptive.onWaveComplete(towers, waveResult): towers is the array
\* PlayingState held when it made the call
onWaveComplete(s, pick) ==
    LET towers == s.towers
        s1 == [s EXCEPT !.wave = @ + 1, !.wavesSinceSwitch = @ + 1]
        switch == /\ shouldSwitchTopology(s.genius)
                  /\ s1.wavesSinceSwitch >= s.level.topologySwitchInterval
        s2 == IF switch
              THEN switchAndNotify([s1 EXCEPT !.genius = selectNextTopology(@, pick)],
                                   topologyOptions[pick])
              ELSE s1
        s3 == [s2 EXCEPT !.genius = updateLearning(@)]
    IN IF s.level.maintenance /\ s3.wave % s.level.topologySwitchInterval = 0
       THEN calculateMaintenance(s3, towers) ELSE s3

\* the wave transition of PlayingState.update: onWaveComplete(), then startWave()
waveTransition(s, pick, variant) ==
    LET s0 == [s EXCEPT !.last = [op |-> "complete", completed |-> s.wave,
                                  switched |-> FALSE, from |-> s.installed,
                                  to |-> s.installed]]
    IN IF s.level.aiType = "GENIUS" THEN startWave(onWaveComplete(s0, pick), variant)
       ELSE startWave(s0, variant)

\* LevelManager.checkWinCondition, mode ENDLESS (this.wave >= undefined is false); no
\* other mode of an endless session has a branch in it
checkWaveCount(s) ==
    IF s.level.mode = "ENDLESS" /\ s.level.waves # NoWaves /\ s.wave >= s.level.waves
    THEN [s EXCEPT !.levelComplete = TRUE]
    ELSE s

\* the indices a drawing loop can end with: those whose name is not the excluded one
Draws(options, excluded) == {k \in 1..Len(options) : options[k] # excluded}

InitWaves ==
    /\ RouteIdle
    /\ PhaseIdle
    /\ pf = <<>>
    /\ tc = <<>>
    /\ rl = <<>>
    /\ store = <<>>
    /\ gen = <<>>
    /\ ck = <<>>
    /\ ai = <<>>
    /\ play = <<>>
    /\ agents = <<>>
    /\ bus = <<>>
    /\ \E level \in WaveLevels :
         \E variant \in Draws(topologyVariants, level.topology) :
           ws = enterEndless(level, variant)

\* handleKeyDown with a tower hotkey
SelectTower ==
    /\ \E type \in TowerTypes : ws' = [ws EXCEPT !.selectedTowerType = type, !.last.op = "key"]
    /\ UNCHANGED <<rtvars, phvars, pf, tc, rl, store, gen, ck, ai, play, agents, bus>>

\* handleCanvasClick on a node of the installed topology
ClickNode ==
    /\ ws.selectedTowerType # NoType
    /\ \E nodeIndex \in 0..(Len(CatalogNodes[ws.installed]) - 1) :
         ws' = [placeTowerAt(ws, nodeIndex) EXCEPT !.last.op = "click"]
    /\ UNCHANGED <<rtvars, phvars, pf, tc, rl, store, gen, ck, ai, play, agents, bus>>

\* PlayingState.update when the wave's last enemy is gone and the level has not ended:
\* the wave transition, then checkWinCondition
WaveComplete ==
    /\ ws.wave < MaxWave
    /\ ~ws.levelComplete
    /\ \E pick \in Draws(topologyOptions, ws.genius.currentTopology),
          variant \in Draws(topologyVariants, ws.topology) :
         ws' = checkWaveCount(waveTransition(ws, pick, variant))
    /\ UNCHANGED <<rtvars, phvars, pf, tc, rl, store, gen, ck, ai, play, agents, bus>>

NextWaves == SelectTower \/ ClickNode \/ WaveComplete

SpecWaves == InitWaves /\ [][NextWaves]_vars

----------------------------------------------------------------------------
(* Properties of endless sessions, checked under SpecWaves *)

\* C28: every topology switch of adaptive mode and every rotation of economic mode installs
\* a topology whose name differs from that of the topology installed just before it.
C28_InstallsDifferentTopology ==
    (ws.last.op = "complete" /\ ws.last.switched) => ws.last.to # ws.last.from

\* C29: in adaptive mode with switch interval N the topology switches at the completion of
\* wave N, 2N, 3N, ... and at the completion of no other wave.
C29_SwitchesEveryNWaves ==
    (ws.level.aiType = "GENIUS" /\ ws.last.op = "complete")
        => (ws.last.switched <=> ws.last.completed % ws.level.topologySwitchInterval = 0)

\* C30: every placed defense sits on a chokepoint of the installed topology, and no node
\* holds more than one defense.
C30_DefensesOnChokepoints ==
    /\ \A i \in 1..Len(ws.towers) :
          \E k \in CatalogChokepoints[ws.installed] :
              NodeAt(ws, k) = <<ws.towers[i].x, ws.towers[i].y>>
    /\ \A i, j \in 1..Len(ws.towers) :
          (i # j) => <<ws.towers[i].x, ws.towers[i].y>> # <<ws.towers[j].x, ws.towers[j].y>>


----------------------------------------------------------------------------
(* A NORMAL-mode session (Level 1): PlayingState with the base LevelManager. play holds
   the controller's counters and flags (lm), the number of agents in PlayingState.enemies,
   the nodes that carry a tower, the selected tower type and the pause flag. Which agents
   reach the goal or die in a frame is decided by the towers and the frame time, and is a
   choice here; the level has no legitimate traffic (legitimateRatio 0). *)

\* Config.LEVELS[1] scaled down: the shipped values are totalPackets 20 and spawnInterval
\* 3000; startingMoney and coreHealth are scaled as in the Level-3 session
TotalPackets == 3
NormalSpawnInterval == 200
SuccessThreshold == 75

\* chokepoints of the installed topology a click can land on
PlayChokepoints == {1, 2}

NewNormalManager ==
    [money |-> StartingMoney, coreHealth |-> StartingHealth, score |-> 0,
     packetsSpawned |-> 0, packetsBlocked |-> 0, packetsLeaked |-> 0, spawnTimer |-> 0,
     levelComplete |-> FALSE, levelFailed |-> FALSE]

\* PlayingState.enter for a level without aiType
enterNormal ==
    [lm |-> NewNormalManager, enemies |-> 0, towers |-> {}, selectedTowerType |-> NoType,
     paused |-> FALSE]

\* LevelManager.calculateSuccessRate, rounded down
calculateSuccessRate(lm) ==
    LET total == lm.packetsBlocked + lm.packetsLeaked
    IN IF total = 0 THEN 0 ELSE (lm.packetsBlocked * 100) \div total

\* LevelManager.checkWinCondition, mode NORMAL
checkWinCondition(lm) ==
    IF lm.levelComplete \/ lm.levelFailed THEN lm
    ELSE IF lm.packetsSpawned >= TotalPackets
         THEN IF calculateSuccessRate(lm) >= SuccessThreshold
              THEN [lm EXCEPT !.levelComplete = TRUE]
              ELSE IF lm.coreHealth <= 0
                   THEN [lm EXCEPT !.levelFailed = TRUE]
                   ELSE lm
         ELSE lm

\* shouldSpawnEnemy without the NORMAL-mode limit
shouldSpawnNormal_NoLimit(lm, deltaTime) ==
    LET t == lm.spawnTimer + deltaTime
    IN IF t >= NormalSpawnInterval
       THEN [lm |-> [lm EXCEPT !.spawnTimer = 0], spawn |-> TRUE]
       ELSE [lm |-> [lm EXCEPT !.spawnTimer = t], spawn |-> FALSE]

\* LevelManager.shouldSpawnEnemy, mode NORMAL: [lm, spawn]
shouldSpawnNormal(lm, deltaTime) ==
    LET t == lm.spawnTimer + deltaTime
    IN IF t >= NormalSpawnInterval
       THEN [lm |-> [lm EXCEPT !.spawnTimer = 0],
             spawn |-> ~(lm.packetsSpawned >= TotalPackets)]
       ELSE [lm |-> [lm EXCEPT !.spawnTimer = t], spawn |-> FALSE]

\* handleLevelComplete and handleLevelFailed: both set the pause flag and show a dialog
handleLevelEnd(p) == [p EXCEPT !.paused = TRUE]

\* PlayingState.update(deltaTime), mode NORMAL: the spawn decision and spawnEnemy,
\* checkWinCondition, the enemy loop in which `leaked` agents reach the goal and `killed`
\* agents die (as many of them as there are agents), checkWinCondition again, and the
\* level-end handlers
updateNormal(p, deltaTime, leaked, killed) ==
    IF p.paused THEN p
    ELSE LET s == shouldSpawnNormal(p.lm, deltaTime)
             n == IF s.spawn THEN p.enemies + 1 ELSE p.enemies
             lm1 == IF s.spawn THEN [s.lm EXCEPT !.packetsSpawned = @ + 1] ELSE s.lm
             l == IF leaked > n THEN n ELSE leaked
             k == IF killed > n - l THEN n - l ELSE killed
             lm2 == checkWinCondition(afterKills(afterLeaks(checkWinCondition(lm1), l), k))
             p1 == [p EXCEPT !.lm = lm2, !.enemies = n - l - k]
         IN IF lm2.levelComplete \/ lm2.levelFailed THEN handleLevelEnd(p1) ELSE p1

\* handleCanvasClick on a node with a tower type selected: canPlaceTower, placeTower
clickNormal(p, nodeIndex) ==
    IF /\ p.selectedTowerType # NoType
       /\ nodeIndex \in PlayChokepoints
       /\ nodeIndex \notin p.towers
       /\ p.lm.money >= TowerCost(p.selectedTowerType)
    THEN [p EXCEPT !.towers = @ \cup {nodeIndex},
                   !.lm.money = @ - TowerCost(p.selectedTowerType)]
    ELSE p

InitPlay ==
    /\ RouteIdle
    /\ PhaseIdle
    /\ pf = <<>>
    /\ tc = <<>>
    /\ rl = <<>>
    /\ store = <<>>
    /\ gen = <<>>
    /\ ck = <<>>
    /\ ai = <<>>
    /\ ws = <<>>
    /\ agents = <<>>
    /\ bus = <<>>
    /\ play = enterNormal

\* GameEngine.gameLoop -> PlayingState.update(deltaTime); a frame while paused returns at once
PlayFrame ==
    /\ ~play.paused
    /\ \E leaked \in 0..TotalPackets, killed \in 0..TotalPackets :
         /\ leaked + killed <= play.enemies + 1
         /\ play' = updateNormal(play, DeltaTime, leaked, killed)
    /\ UNCHANGED <<rtvars, phvars, pf, tc, rl, store, gen, ck, ai, ws, agents, bus>>

\* PlayingState.handleTogglePause (Space, the pause button, the resume button)
PlayTogglePause ==
    /\ play' = [play EXCEPT !.paused = ~@]
    /\ UNCHANGED <<rtvars, phvars, pf, tc, rl, store, gen, ck, ai, ws, agents, bus>>

\* PlayingState.handleKeyDown with a tower hotkey
PlayKeySelect ==
    /\ \E type \in TowerTypes : play' = [play EXCEPT !.selectedTowerType = type]
    /\ UNCHANGED <<rtvars, phvars, pf, tc, rl, store, gen, ck, ai, ws, agents, bus>>

\* a canvas click on a node
PlayCanvasClick ==
    /\ \E nodeIndex \in PlayChokepoints : play' = clickNormal(play, nodeIndex)
    /\ UNCHANGED <<rtvars, phvars, pf, tc, rl, store, gen, ck, ai, ws, agents, bus>>

NextPlay == PlayFrame \/ PlayTogglePause \/ PlayKeySelect \/ PlayCanvasClick

SpecPlay == InitPlay /\ [][NextPlay]_vars

----------------------------------------------------------------------------
(* Properties of the NORMAL-mode session, checked under SpecPlay *)

Final == play.lm.levelComplete \/ play.lm.levelFailed

AllLeft == play.lm.packetsSpawned >= TotalPackets /\ play.enemies = 0

\* C35: in NORMAL mode, once all totalPackets agents have been spawned and every one of
\* them has left play, the level is final: levelComplete or levelFailed is set.
C35_FinalOnceAllLeft == AllLeft => Final

Counters(p) ==
    <<p.lm.packetsSpawned, p.lm.packetsBlocked, p.lm.packetsLeaked, p.lm.coreHealth,
      p.lm.money, p.enemies>>

\* C36: once the level is complete or failed, no step (a frame, a pause toggle, a key,
\* a click) spawns an agent or changes the spawned, blocked and leaked counters, the
\* core health or the funds.
C36_FinalIsFrozen == [][Final => Counters(play') = Counters(play)]_vars

\* C40: blocked + leaked + agents in play never exceeds spawned; in every step the two
\* counters together grow by the number of agents that left play in that step, so an
\* agent is counted once, as blocked or as leaked; and packetsSpawned never exceeds
\* totalPackets.
C40_PacketsConserved ==
    /\ [](/\ play.lm.packetsBlocked + play.lm.packetsLeaked + play.enemies
               <= play.lm.packetsSpawned
          /\ play.lm.packetsSpawned <= TotalPackets)
    /\ [][LET spawnedNow == play'.lm.packetsSpawned - play.lm.packetsSpawned
              leftNow == play.enemies + spawnedNow - play'.enemies
          IN /\ spawnedNow \in {0, 1}
             /\ leftNow >= 0
             /\ play'.lm.packetsBlocked >= play.lm.packetsBlocked
             /\ play'.lm.packetsLeaked >= play.lm.packetsLeaked
             /\ (play'.lm.packetsBlocked - play.lm.packetsBlocked)
                  + (play'.lm.packetsLeaked - play.lm.packetsLeaked) <= leftNow]_vars

\* all agents were spawned, some were blocked and some leaked, none is in play
C40_Witness ==
    /\ play.lm.packetsSpawned = TotalPackets
    /\ play.enemies = 0
    /\ play.lm.packetsBlocked > 0
    /\ play.lm.packetsLeaked > 0
    /\ play.lm.packetsBlocked + play.lm.packetsLeaked = TotalPackets


----------------------------------------------------------------------------
(* An endless session frame by frame: ws is the session as above, agents holds what
   PlayingState.update adds to it: PlayingState.enemies as the topology each agent was
   built on (spawnEnemy hands the manager's path, nodes and edges to the Enemy), the
   packetsInWave counter, the manager's spawn timer, core health and levelFailed, and the
   pause flag; cleared counts the wave transitions made. The player places no tower in
   these sessions. Which agents leave play in a frame, and how, is a choice. *)

\* waveLimit of PlayingState.update scaled down: the shipped value is 15
WaveLimit == 2

enterAgents ==
    [enemies |-> <<>>, packetsInWave |-> 0, spawnTimer |-> 0, coreHealth |-> StartingHealth,
     levelFailed |-> FALSE, paused |-> FALSE, cleared |-> 0]

\* the wave-transition test that does not look at the agents in play
waveDue_IgnoresAgents(s, a) == ~s.levelComplete /\ ~a.levelFailed

\* PlayingState.update: the test it makes, once the wave is fully spawned, before the wave
\* transition (waveTransitioning is false between frames)
waveDue(s, a) == Len(a.enemies) = 0 /\ ~s.levelComplete /\ ~a.levelFailed

\* the agents of es whose index is not in gone, in order
Remaining(es, gone) ==
    LET keep == {i \in 1..Len(es) : i \notin gone}
        F[k \in 0..Len(es)] ==
            IF k = 0 THEN <<>>
            ELSE IF k \in keep THEN Append(F[k - 1], es[k]) ELSE F[k - 1]
    IN F[Len(es)]

\* PlayingState.update(deltaTime) in an endless session: the spawn decision or the wave
\* transition, checkWinCondition, the enemy loop in which the agents at the indices gone
\* leave play (killed of them destroyed, hits of them threats that reached the goal, the
\* others legitimate traffic that reached it), checkWinCondition again and the level-end
\* handlers: [s, a]
updateEndless(s, a, deltaTime, gone, killed, hits, pick, variant) ==
    IF a.paused THEN [s |-> s, a |-> a]
    ELSE LET spawning == a.packetsInWave < WaveLimit
             sp == shouldSpawnNormal_NoLimit(a, deltaTime)
             due == ~spawning /\ waveDue(s, a)
             a1 == IF spawning
                   THEN IF sp.spawn
                        THEN [sp.lm EXCEPT !.enemies = Append(@, s.installed),
                                           !.packetsInWave = @ + 1]
                        ELSE sp.lm
                   ELSE IF due
                        THEN [a EXCEPT !.packetsInWave = 0, !.cleared = @ + 1,
                                       !.spawnTimer = IF s.level.aiType = "GENIUS"
                                                      THEN 0 ELSE @]
                        ELSE a
             s1 == checkWaveCount(IF due THEN waveTransition(s, pick, variant) ELSE s)
             left == gone \cap (1..Len(a1.enemies))
             k == IF killed > Cardinality(left) THEN Cardinality(left) ELSE killed
             h == IF hits > Cardinality(left) - k THEN Cardinality(left) - k ELSE hits
             lm == afterKills(afterLeaks([coreHealth |-> a1.coreHealth,
                                          levelFailed |-> a1.levelFailed,
                                          packetsLeaked |-> 0, packetsBlocked |-> 0,
                                          score |-> 0, money |-> s1.money], h), k)
             a2 == [a1 EXCEPT !.enemies = Remaining(@, left),
                              !.coreHealth = lm.coreHealth,
                              !.levelFailed = lm.levelFailed]
             s2 == checkWaveCount([s1 EXCEPT !.money = lm.money])
         IN [s |-> s2,
             a |-> IF s2.levelComplete \/ a2.levelFailed
                   THEN [a2 EXCEPT !.paused = TRUE] ELSE a2]

InitEndless ==
    /\ RouteIdle
    /\ PhaseIdle
    /\ pf = <<>>
    /\ tc = <<>>
    /\ rl = <<>>
    /\ store = <<>>
    /\ gen = <<>>
    /\ ck = <<>>
    /\ ai = <<>>
    /\ play = <<>>
    /\ bus = <<>>
    /\ agents = enterAgents
    /\ \E level \in WaveLevels :
         \E variant \in Draws(topologyVariants, level.topology) :
           ws = enterEndless(level, variant)

\* the most agents the enemy loop of the next frame can find: those in play and one spawned
InPlayAfterSpawn ==
    IF agents.packetsInWave < WaveLimit THEN Len(agents.enemies) + 1 ELSE Len(agents.enemies)

\* the draws of the next frame: those of the drawing loops when the frame makes the wave
\* transition, one that is not used when it does not
TransitionDraws(options, excluded) ==
    IF agents.packetsInWave >= WaveLimit /\ waveDue(ws, agents)
    THEN Draws(options, excluded) ELSE {1}

\* GameEngine.gameLoop -> PlayingState.update(deltaTime); a frame while paused returns at once
EndlessFrame ==
    /\ ~agents.paused
    /\ ws.wave < MaxWave
    /\ \E gone \in SUBSET (1..InPlayAfterSpawn) :
         \E killed \in 0..Cardinality(gone) :
           \E hits \in 0..(Cardinality(gone) - killed) :
             \E pick \in TransitionDraws(topologyOptions, ws.genius.currentTopology),
                variant \in TransitionDraws(topologyVariants, ws.topology) :
               LET r == updateEndless(ws, agents, DeltaTime, gone, killed, hits, pick, variant)
               IN ws' = r.s /\ agents' = r.a
    /\ UNCHANGED <<rtvars, phvars, pf, tc, rl, store, gen, ck, ai, play, bus>>

\* PlayingState.handleTogglePause (Space, the pause button, the resume button)
EndlessTogglePause ==
    /\ agents' = [agents EXCEPT !.paused = ~@]
    /\ UNCHANGED <<rtvars, phvars, pf, tc, rl, store, gen, ck, ai, ws, play, bus>>

NextEndless == EndlessFrame \/ EndlessTogglePause

SpecEndless == InitEndless /\ [][NextEndless]_vars

----------------------------------------------------------------------------
(* Properties of endless sessions with agents, checked under SpecEndless *)

\* C37: a topology switch or rotation happens only at a wave boundary at which no agent
\* is in play, so every agent in play was built on the installed topology.
C37_AgentsOnInstalledTopology ==
    /\ [](\A i \in 1..Len(agents.enemies) : agents.enemies[i] = ws.installed)
    /\ [][ws'.installed # ws.installed
            => /\ Len(agents.enemies) = 0
               /\ agents.packetsInWave >= WaveLimit
               /\ agents'.cleared = agents.cleared + 1]_vars

\* the topology was switched or rotated, and agents of the next wave are in play
C37_Witness ==
    /\ ws.last.op = "complete"
    /\ ws.last.switched
    /\ ws.last.to # ws.last.from
    /\ Len(agents.enemies) > 0
    /\ agents.cleared >= 2

\* C39: in ENDLESS mode with a configured wave count W the level is complete only after W
\* waves have each been fully spawned and cleared, and the wave number grows by exactly
\* one with each completed wave.
C39_CompleteAfterAllWaves ==
    /\ []((ws.level.mode = "ENDLESS" /\ ws.level.waves # NoWaves /\ ws.levelComplete)
            => agents.cleared >= ws.level.waves)
    /\ [][ws.level.mode = "ENDLESS"
            => ws'.wave - ws.wave = agents'.cleared - agents.cleared]_vars


----------------------------------------------------------------------------
(* The event bus over sessions: GameEngine.setState calls exit() of the state it leaves and
   enter(data) of the state it enters; 'playing' is one PlayingState object. A callback is
   a function object: fn names the function, made tells the objects of different
   evaluations of one expression apart (0 for the handlers the PlayingState constructor
   binds and for main.js, the ordinal of the enter() call for the closures and the bound
   restart handler that enter() creates). bus.last is the last emission and the number of
   PlayingState handlers it ran. *)

MaxEnters == 3

\* the events PlayingState.enter subscribes to
Events ==
    {"canvasClick", "canvasMouseMove", "keyDown", "togglePause", "restartLevel", "aiTip",
     "topologySwitch", "aiStrategyUpdate", "phaseChange", "phaseTimerUpdate",
     "stackelbergComplete", "economicTopologyRotation", "rlLearningUpdate"}

\* data.level.aiType of the four levels
AiTypes == {"none", "GENIUS", "PERFECT", "ECONOMIC_RL"}

\* a missing argument, and PlayingState.onRestart before the first enter()
NoCallback == [fn |-> "undefined", made |-> 0]

Bound(fn) == [fn |-> fn, made |-> 0]

Closure(fn, n) == [fn |-> fn, made |-> n]

\* EventBus.on
on(l, event, callback) == [l EXCEPT ![event] = Append(@, callback)]

\* EventBus.off: indexOf(callback), and splice when it is found
off(l, event, callback) ==
    IF \E i \in 1..Len(l[event]) : l[event][i] = callback
    THEN LET index == CHOOSE i \in 1..Len(l[event]) :
                         /\ l[event][i] = callback
                         /\ \A j \in 1..(i - 1) : l[event][j] # callback
         IN [l EXCEPT ![event] = SubSeq(@, 1, index - 1) \o SubSeq(@, index + 1, Len(@))]
    ELSE l

\* main.js setupEventListeners, as far as it subscribes to the events above
InitialListeners ==
    [e \in Events |-> IF e = "stackelbergComplete" THEN <<Bound("main")>> ELSE <<>>]

\* the subscriptions of PlayingState.enter(data), n-th call
enterBus(b, aiType) ==
    LET n == b.enters + 1
        onRestart == Closure("onRestart", n)
        l1 == on(on(on(on(b.listeners, "canvasClick", Bound("onCanvasClick")),
                       "canvasMouseMove", Bound("onCanvasMouseMove")),
                    "keyDown", Bound("onKeyDown")),
                 "togglePause", Bound("onTogglePause"))
        l2 == on(on(l1, "restartLevel", onRestart), "aiTip", Closure("showAITip", n))
        l3 == IF aiType = "GENIUS"
              THEN on(on(l2, "topologySwitch", Closure("handleTopologySwitch", n)),
                      "aiStrategyUpdate", Closure("handleAIStrategyUpdate", n))
              ELSE l2
        l4 == IF aiType = "PERFECT"
              THEN on(on(on(l3, "phaseChange", Closure("handlePhaseChange", n)),
                         "phaseTimerUpdate", Closure("handlePhaseTimer", n)),
                      "stackelbergComplete", Closure("handleStackelbergComplete", n))
              ELSE l3
        l5 == IF aiType = "ECONOMIC_RL"
              THEN on(on(l4, "economicTopologyRotation", Closure("handleEconomicRotation", n)),
                      "rlLearningUpdate", Closure("handleRLUpdate", n))
              ELSE l4
    IN [b EXCEPT !.listeners = l5, !.playing = TRUE, !.aiType = aiType, !.enters = n,
                 !.onRestart = onRestart, !.last = [event |-> "enter", handled |-> 0]]

RECURSIVE offEach(_, _)
\* eventBus.off(event) for each event of a list, without a callback
offEach(l, events) ==
    IF events = <<>> THEN l ELSE offEach(off(l, Head(events), NoCallback), Tail(events))

\* PlayingState.exit()
exitBus(b) ==
    LET l1 == off(off(off(off(b.listeners, "canvasClick", Bound("onCanvasClick")),
                          "canvasMouseMove", Bound("onCanvasMouseMove")),
                      "keyDown", Bound("onKeyDown")),
                  "togglePause", Bound("onTogglePause"))
        l2 == IF b.onRestart # NoCallback THEN off(l1, "restartLevel", b.onRestart) ELSE l1
        l3 == offEach(l2, <<"aiTip", "topologySwitch", "aiStrategyUpdate", "phaseChange",
                            "phaseTimerUpdate", "stackelbergComplete",
                            "economicTopologyRotation", "rlLearningUpdate">>)
    IN [b EXCEPT !.listeners = l3, !.playing = FALSE,
                 !.last = [event |-> "exit", handled |-> 0]]

\* the listeners of an event that are functions of PlayingState
OfPlaying(l, event) == {i \in 1..Len(l[event]) : l[event][i].fn # "main"}

\* EventBus.emit(event): every listener of the event is called
emit(b, event) ==
    [b EXCEPT !.last = [event |-> event, handled |-> Cardinality(OfPlaying(b.listeners, event))]]

InitBus ==
    /\ RouteIdle
    /\ PhaseIdle
    /\ pf = <<>>
    /\ tc = <<>>
    /\ rl = <<>>
    /\ store = <<>>
    /\ gen = <<>>
    /\ ck = <<>>
    /\ ai = <<>>
    /\ ws = <<>>
    /\ play = <<>>
    /\ agents = <<>>
    /\ bus = [listeners |-> InitialListeners, playing |-> FALSE, aiType |-> "none",
              enters |-> 0, onRestart |-> NoCallback,
              last |-> [event |-> "none", handled |-> 0]]

\* a level is selected in the menu: setState('playing', data)
EnterPlaying ==
    /\ ~bus.playing
    /\ bus.enters < MaxEnters
    /\ \E aiType \in AiTypes : bus' = enterBus(bus, aiType)
    /\ UNCHANGED <<rtvars, phvars, pf, tc, rl, store, gen, ck, ai, ws, play, agents>>

\* quit to the menu: setState('menu') calls exit() of the PlayingState
ExitPlaying ==
    /\ bus.playing
    /\ bus' = exitBus(bus)
    /\ UNCHANGED <<rtvars, phvars, pf, tc, rl, store, gen, ck, ai, ws, play, agents>>

\* restart, or the next level: setState('playing', data) while playing calls exit(), then
\* enter(data)
ReenterPlaying ==
    /\ bus.playing
    /\ bus.enters < MaxEnters
    /\ \E aiType \in AiTypes : bus' = enterBus(exitBus(bus), aiType)
    /\ UNCHANGED <<rtvars, phvars, pf, tc, rl, store, gen, ck, ai, ws, play, agents>>

\* an event is emitted during a session
Emit ==
    /\ bus.playing
    /\ \E event \in Events : bus' = emit(bus, event)
    /\ UNCHANGED <<rtvars, phvars, pf, tc, rl, store, gen, ck, ai, ws, play, agents>>

NextBus == EnterPlaying \/ ExitPlaying \/ ReenterPlaying \/ Emit

SpecBus == InitBus /\ [][NextBus]_vars

----------------------------------------------------------------------------
(* Properties of the event bus, checked under SpecBus *)

\* C38: after exit() the bus holds none of the listeners enter() registered; so no event's
\* listeners grow over enter/exit cycles, and an emission is handled once.
C38_ExitRemovesListeners ==
    /\ ~bus.playing => \A e \in Events : OfPlaying(bus.listeners, e) = {}
    /\ \A e \in Events : Cardinality(OfPlaying(bus.listeners, e)) <= 1
    /\ bus.last.handled <= 1

====
